---- MODULE Spec2Model ----
(***************************************************************************)
(* StorageService (src/lib/types.ts:49-222): the mock object store and     *)
(* analytics ledger kept in localStorage.  Three keyed collections: the    *)
(* JSON list under 'screen_recorder_videos', one 'video_blob_<id>' item    *)
(* per video and the JSON map under 'screen_recorder_analytics'.           *)
(*                                                                         *)
(* localStorage is modelled with its quota: every item has a size in       *)
(* abstract units and setItem throws QuotaExceededError, leaving the item  *)
(* as it was, when the total would exceed the quota of the run.            *)
(***************************************************************************)
EXTENDS Integers, Sequences, FiniteSets, TLC

\* ---------------------------------------------------------------- bounds
MaxTime == 1            \* Date.now() takes the values 0..MaxTime
MaxRand == 1            \* Math.random() suffix takes the values 0..MaxRand
MaxCreated == 2         \* createdAt timestamps 1..MaxCreated
MaxUploads == 4         \* uploadVideo calls of a run of sequential uploads
MaxOverlap == 2         \* uploadVideo calls of a run of overlapping uploads
MaxPending == 2         \* uploadVideo calls awaiting blobToBase64 at once
MaxViews == 1           \* incrementView calls in one run
MaxPoints == 1          \* recordCompletion calls in one run
Capacity == 9           \* localStorage quota, in size units
EvictUploads == 9       \* uploadVideo calls of a run of ordered uploads
EvictCapacity == 12     \* localStorage quota of a run of ordered uploads
LedgerUploads == 1      \* uploadVideo calls of a run with several viewings
LedgerViews == 2        \* incrementView calls of such a run
LedgerPoints == 3       \* recordCompletion calls of such a run
LedgerCapacity == 7     \* localStorage quota of such a run
TabsCapacity == 12      \* localStorage quota of a run with two tabs
WatchUploads == 2       \* uploadVideo calls of a run with a watch page
WatchViews == 2         \* incrementView calls of such a run
WatchCapacity == 5      \* localStorage quota of such a run
MaxLoads == 2           \* runs of loadVideo while a watch page is mounted
PlayMaxTime == 3        \* clock range of a run with a player
PlayEnds == 2           \* ended events of such a run
PlayLength == 2         \* duration of the played video, in seconds
UploaderUploads == 3    \* runs of handleUpload in a run with an uploader
UploaderCapacity == 7   \* localStorage quota of such a run
RecorderMaxTime == 3    \* last instant of a run with the recorder
MaxStarts == 2          \* clicks on "Start Recording" in such a run
MaxDuration == 5        \* longest video in the trimmer, in twentieths of a second
FaultUploads == 5       \* uploadVideo calls of a run with errors of other kinds

\* ------------------------------------------------------- program constants
\* the clock of the trimmer counts twentieths of a second: the 0.1 of
\* handleStartTimeChange, handleEndTimeChange and of the sliders' step
UnitsPerSecond == 20
Tenth == 2
\* the message of the error uploadVideo throws when the retry fails
CapacityMessage == "Storage quota exceeded. Please delete some videos manually."
\* the message handleUpload shows in its catch block
UploadFailedAlert == "Failed to upload video. Please try again."
KeepCount == 3          \* cleanupOldVideos(3) inside uploadVideo

Times == 0..MaxTime
Ids == Times \X (0..MaxRand)
Files == {"f1", "f2"}
Percentages == {50, 150}
Durations == {7}

\* size of a Blob's data URL in the quota
FileSize(f) == IF f = "f1" THEN 1 ELSE 2

\* the caller's metadata: Omit<VideoMetadata, 'id' | 'shareUrl'>
Metas == [title : {"t"}, filename : {"r.webm"}, duration : {4},
          size : {9}, createdAt : 1..MaxCreated]

\* The calls one run may make.  A run is either a series of uploads that
\* do not overlap, or fewer uploads that may overlap and are mixed with
\* the analytics calls.
Budgets == {[uploads |-> MaxUploads, pending |-> 1, views |-> 0, points |-> 0,
             time |-> MaxTime, quota |-> Capacity],
            [uploads |-> MaxOverlap, pending |-> MaxPending,
             views |-> MaxViews, points |-> MaxPoints,
             time |-> MaxTime, quota |-> Capacity]}

\* now        Date.now()
\* videos     the parsed list under 'screen_recorder_videos'
\* blobs      id -> the data URL under 'video_blob_<id>', for the items present
\* analytics  the parsed map under 'screen_recorder_analytics'
\* pending    the uploadVideo calls awaiting blobToBase64
\* budget     the calls the run may still make, its clock range and quota
\* last       the last call that returned or threw
\* issued     id -> how often generateId has returned it
\* returned   id -> the record and data URL of the latest uploadVideo that
\*            returned it, until the id is deleted or evicted
\* streak     in runs of ordered uploads, the ids of the latest calls in a
\*            row that were stored after a cleanup
\* tabs       the store call each browser tab is in the middle of
\* watch      the watch page that is mounted, if any
\* uploader   the VideoUploader component
\* recorder   the ScreenRecorder component
\* home       the home page
\* trimmer    the VideoTrimmer component
VARIABLES now, videos, blobs, analytics, pending, budget, last,
          issued, returned, streak, tabs, watch,
          uploader, recorder, home, trimmer

vars == <<now, videos, blobs, analytics, pending, budget, last,
          issued, returned, streak, tabs, watch,
          uploader, recorder, home, trimmer>>

\* the state of the clients of the store, which the store's methods called
\* on their own leave alone
\* the state of the components of the home page
uiVars == <<uploader, recorder, home, trimmer>>

clientVars == <<tabs, watch, uiVars>>

\* ------------------------------------------------------------ conversions
\* JSON.stringify followed by JSON.parse of one VideoMetadata whose numbers
\* are finite (the durations and sizes of Metas): every own field comes
\* back with its value.
JsonVideo(v) == [id |-> v.id, title |-> v.title, filename |-> v.filename,
                 duration |-> v.duration, size |-> v.size,
                 createdAt |-> v.createdAt, shareUrl |-> v.shareUrl]

\* maps keyed by id: the items present are the domain
Empty == [x \in {} |-> 0]
Put(f, k, v) == [x \in (DOMAIN f) \cup {k} |-> IF x = k THEN v ELSE f[x]]
Drop(f, S) == [x \in (DOMAIN f) \ S |-> f[x]]

\* FileReader.readAsDataURL: the data URL of the blob
blobToBase64(f) == <<"data:base64", f>>

\* `/watch/${id}`
ShareUrl(id) == <<"/watch/", id>>

\* new Date(createdAt).getTime() of an ISO timestamp
GetTime(createdAt) == createdAt

\* --------------------------------------------------------------- the store
\* A store value st is [videos, blobs, analytics]: the three collections.
StoreOf(v, b, a) == [videos |-> v, blobs |-> b, analytics |-> a]

\* one analytics entry: the object, its lastViewed once set, its points
AnalyticsSize(a) == 1 + Len(a.lastViewed) + Len(a.completionData)

BlobSize(b) == FileSize(b[2])

RECURSIVE BlobBytes(_, _)
BlobBytes(S, b) ==
    IF S = {} THEN 0
    ELSE LET x == CHOOSE y \in S : TRUE
         IN BlobSize(b[x]) + BlobBytes(S \ {x}, b)

RECURSIVE AnalyticsBytes(_, _)
AnalyticsBytes(S, a) ==
    IF S = {} THEN 0
    ELSE LET x == CHOOSE y \in S : TRUE
         IN AnalyticsSize(a[x]) + AnalyticsBytes(S \ {x}, a)

\* size units used by the three collections
Used(st) == Len(st.videos) + BlobBytes(DOMAIN st.blobs, st.blobs)
            + AnalyticsBytes(DOMAIN st.analytics, st.analytics)

\* localStorage.setItem: does the store with the item written fit the quota
Fits(st) == Used(st) <= budget.quota

getVideos(st) == st.videos

\* total / length as the exact quotient, in lowest terms
RECURSIVE Gcd(_, _)
Gcd(a, b) == IF b = 0 THEN a ELSE Gcd(b, a % b)
Quotient(total, n) == [num |-> total \div Gcd(total, n), den |-> n \div Gcd(total, n)]

\* the object initializeAnalytics stores; lastViewed is absent (<<>>)
ZeroAnalytics(id) == [videoId |-> id, views |-> 0, completionData |-> <<>>,
                      averageWatchPercentage |-> [num |-> 0, den |-> 1],
                      lastViewed |-> <<>>]

\* deleteAnalytics removing the whole analytics key instead of one entry
deleteAnalyticsKey(st, id) ==
    [st EXCEPT !.analytics = Empty]

\* delete analytics[videoId]; setItem(analytics)
deleteAnalytics(st, id) ==
    [st EXCEPT !.analytics = Drop(st.analytics, {id})]

HasId(vs, id) == \E i \in 1..Len(vs) : vs[i].id = id
Entries(vs, id) == Cardinality({i \in 1..Len(vs) : vs[i].id = id})
Remove(s, i) == SubSeq(s, 1, i - 1) \o SubSeq(s, i + 1, Len(s))

\* videos.find(v => v.id === id) || null
FindVideo(vs, id) ==
    vs[CHOOSE i \in 1..Len(vs) :
          vs[i].id = id /\ \A j \in 1..(i - 1) : vs[j].id # id]

\* The lookups; a result of <<>> is the null the code returns, <<x>> is x.
getVideo(st, id) ==
    IF HasId(getVideos(st), id) THEN <<FindVideo(getVideos(st), id)>> ELSE <<>>
getVideoBlob(st, id) ==
    IF id \in DOMAIN st.blobs THEN <<st.blobs[id]>> ELSE <<>>
getAnalytics(st, id) ==
    IF id \in DOMAIN st.analytics THEN <<st.analytics[id]>> ELSE <<>>

\* Array.prototype.sort with (a, b) => time(b) - time(a): stable, newest first
RECURSIVE InsertDesc(_, _)
InsertDesc(x, s) ==
    IF s = <<>> THEN <<x>>
    ELSE IF GetTime(s[Len(s)].createdAt) >= GetTime(x.createdAt)
         THEN Append(s, x)
         ELSE Append(InsertDesc(x, SubSeq(s, 1, Len(s) - 1)), s[Len(s)])

RECURSIVE SortNewestFirst(_)
SortNewestFirst(s) ==
    IF s = <<>> THEN <<>>
    ELSE InsertDesc(s[Len(s)], SortNewestFirst(SubSeq(s, 1, Len(s) - 1)))

\* videos.slice(keepCount) of the sorted list
VideosToDelete(vs, keepCount) ==
    IF Len(vs) <= keepCount THEN <<>>
    ELSE SubSeq(SortNewestFirst(vs), keepCount + 1, Len(vs))

\* videos.slice(0, keepCount) of the sorted list
RecentVideos(vs, keepCount) == SubSeq(SortNewestFirst(vs), 1, keepCount)

DeletedIds(vs, keepCount) ==
    {VideosToDelete(vs, keepCount)[i].id :
        i \in 1..Len(VideosToDelete(vs, keepCount))}

\* cleanupOldVideos without the removeItem and deleteAnalytics of the loop
cleanupListOnly(st, keepCount) ==
    IF Len(st.videos) <= keepCount THEN st
    ELSE [st EXCEPT !.videos = RecentVideos(st.videos, keepCount)]

cleanupOldVideos(st, keepCount) ==
    IF Len(st.videos) <= keepCount THEN st
    ELSE LET gone == DeletedIds(st.videos, keepCount)
         IN [videos |-> RecentVideos(st.videos, keepCount),
             blobs |-> Drop(st.blobs, gone),
             analytics |-> Drop(st.analytics, gone)]

\* The three writes of one attempt (lines 69-77 and 89-93).  The first
\* setItem that does not fit throws and the writes before it stay.
WriteAll(st, videoData, base64) ==
    LET s1 == [st EXCEPT !.videos = Append(getVideos(st), JsonVideo(videoData))]
        s2 == [s1 EXCEPT !.blobs = Put(s1.blobs, videoData.id, base64)]
        s3 == [s2 EXCEPT !.analytics =
                  Put(s2.analytics, videoData.id, ZeroAnalytics(videoData.id))]
    IN  IF ~Fits(s1) THEN [store |-> st, ok |-> FALSE, at |-> "list"]
        ELSE IF ~Fits(s2) THEN [store |-> s1, ok |-> FALSE, at |-> "blob"]
        ELSE IF ~Fits(s3) THEN [store |-> s2, ok |-> FALSE, at |-> "analytics"]
        ELSE [store |-> s3, ok |-> TRUE, at |-> "none"]

\* uploadVideo after the await: try, on QuotaExceededError clean up and retry
uploadVideo(st, videoData, base64) ==
    LET first == WriteAll(st, videoData, base64)
        retry == WriteAll(cleanupOldVideos(first.store, KeepCount),
                          videoData, base64)
    IN  IF first.ok
        THEN [store |-> first.store, outcome |-> "stored",
              first |-> "none", evicted |-> {}]
        ELSE [store |-> retry.store,
              outcome |-> IF retry.ok THEN "storedAfterCleanup"
                          ELSE "CapacityExceeded",
              first |-> first.at,
              evicted |-> DeletedIds(first.store.videos, KeepCount)]

\* deleteVideo removing one list entry of the id instead of all of them
deleteFirstEntry(st, id) ==
    deleteAnalytics(
        [st EXCEPT !.videos =
                      IF HasId(st.videos, id)
                      THEN Remove(st.videos,
                                  CHOOSE i \in 1..Len(st.videos) :
                                      st.videos[i].id = id)
                      ELSE st.videos,
                   !.blobs = Drop(st.blobs, {id})], id)

deleteVideo(st, id) ==
    deleteAnalytics(
        [st EXCEPT !.videos = SelectSeq(getVideos(st), LAMBDA v : v.id # id),
                   !.blobs = Drop(st.blobs, {id})], id)

RECURSIVE SumPercent(_)
SumPercent(points) ==
    IF points = <<>> THEN 0
    ELSE points[1].watchPercentage + SumPercent(Tail(points))

\* incrementView counting the view on every record of the map
incrementViewAll(st, id, t) ==
    [st EXCEPT !.analytics =
        [k \in DOMAIN st.analytics |->
            [st.analytics[k] EXCEPT !.views = @ + 1, !.lastViewed = <<t>>]]]

\* incrementView: the analytics map after the call, when the id is present
incrementView(st, id, t) ==
    [st EXCEPT !.analytics =
        [st.analytics EXCEPT ![id] =
            [@ EXCEPT !.views = @ + 1, !.lastViewed = <<t>>]]]

\* recordCompletion taking the average over the points stored before the
\* call instead of over the list with the new point
recordCompletionStale(st, id, watchPercentage, watchDuration, t) ==
    LET old == st.analytics[id].completionData
        points == Append(old, [timestamp |-> t,
                               watchPercentage |-> watchPercentage,
                               watchDuration |-> watchDuration])
    IN [st EXCEPT !.analytics =
           [st.analytics EXCEPT ![id] =
               [@ EXCEPT !.completionData = points,
                         !.averageWatchPercentage =
                             IF old = <<>> THEN [num |-> 0, den |-> 1]
                             ELSE Quotient(SumPercent(old), Len(old))]]]

\* recordCompletion: the analytics map after the call, when the id is present
recordCompletion(st, id, watchPercentage, watchDuration, t) ==
    LET points == Append(st.analytics[id].completionData,
                         [timestamp |-> t,
                          watchPercentage |-> watchPercentage,
                          watchDuration |-> watchDuration])
    IN [st EXCEPT !.analytics =
           [st.analytics EXCEPT ![id] =
               [@ EXCEPT !.completionData = points,
                         !.averageWatchPercentage =
                             Quotient(SumPercent(points), Len(points))]]]

\* ---------------------------------------------------------------- state
Store == StoreOf(videos, blobs, analytics)

\* no tab is in the middle of a call
NoTabs == <<>>

\* the components of the home page before they are used
\* VideoUploader as mounted: uploading, uploaded and videoData are its state
\* (useState(false), useState(false), useState(null)); pc is where
\* handleUpload stands ("idle" when it is not running), alert the message
\* of the last alert(), calls the uploadVideo calls and thrown the error of
\* the latest run of handleUpload, runs the runs it has started
NoUploader == [uploading |-> FALSE, uploaded |-> FALSE, videoData |-> <<>>,
               pc |-> "idle", alert |-> <<>>, calls |-> 0,
               thrown |-> "none", runs |-> 0]
\* ScreenRecorder as mounted. isRecording, isPaused and mediaRecorder are
\* fields of its state (stream is null exactly when mediaRecorder is);
\* intervalRef, effectiveStartTimeRef and pauseTimeRef are its refs, null
\* being <<>>. starting holds the runs of startRecording that wait for the
\* capture streams, each with the state.mediaRecorder its closure sees;
\* recorders are the MediaRecorder objects made so far with their streams;
\* intervals are the timers setInterval has made and clearInterval has not
\* cleared; clicks counts the clicks on "Start Recording"; delivered lists the calls of onRecordingComplete and
\* call names the handler that ran last.
NoRecorder == [isRecording |-> FALSE, isPaused |-> FALSE,
               mediaRecorder |-> <<>>, intervalRef |-> <<>>,
               effectiveStartTimeRef |-> <<>>, pauseTimeRef |-> <<>>,
               error |-> FALSE, starting |-> <<>>, recorders |-> <<>>,
               intervals |-> {}, clicks |-> 0,
               delivered |-> <<>>, call |-> "none"]
\* Home as mounted: recordedVideo and trimmedVideo are null (<<>>) and
\* videoDuration is 0
NoHome == [recordedVideo |-> <<>>, trimmedVideo |-> <<>>,
           videoDuration |-> [num |-> 0, den |-> 1]]
\* VideoTrimmer as mounted: loaded (FFmpeg), trimming, duration and
\* trimSettings are its state, times counted in twentieths of a second;
\* metadata is the video whose loadedmetadata event has been handled and
\* preview the trimmed video trimVideo has put into the player, with the
\* videoBlob it replaced. instance counts the mounts before this one and
\* jobs holds the runs of trimVideo that wait for FFmpeg, which outlive
\* the component that started them.
NoTrimmer == [loaded |-> FALSE, trimming |-> FALSE, duration |-> 0,
              trimSettings |-> [startTime |-> 0, endTime |-> 0,
                                duration |-> 0],
              metadata |-> <<>>, preview |-> <<>>, alert |-> FALSE,
              instance |-> 0, jobs |-> <<>>]

\* The watch page before it is mounted: the route parameter videoId, the
\* ref viewCountedRef (useRef(false)), the state video (useState(null))
\* and loading (useState(true)); loads and calls count the runs of
\* loadVideo and the incrementView calls since the page was mounted.
\* watchStartTimeRef and maxWatchPercentageRef are the refs of the player
\* (useRef(0)); firstPlay is the time of the first play event, seen the
\* percentages the time updates have computed, ends the number of ended
\* events and sent the arguments of the recordCompletion calls since the
\* page was mounted.
NoPage == [mounted |-> FALSE, videoId |-> <<>>, viewCountedRef |-> FALSE,
           video |-> <<>>, loading |-> TRUE, loads |-> 0, calls |-> 0,
           watchStartTimeRef |-> 0, maxWatchPercentageRef |-> 0,
           firstPlay |-> <<>>, seen |-> {}, ends |-> 0, sent |-> <<>>]

\* The last call that returned or threw: the operation, its argument, how
\* it ended, and a note: for uploadVideo the write its first attempt was
\* rejected at, for deleteVideo "many" when the list held the id more than
\* once.
NoOp == [op |-> "none", id |-> <<>>, outcome |-> "none", note |-> "none"]

Init ==
    /\ now = 0
    /\ videos = <<>>
    /\ blobs = Empty
    /\ analytics = Empty
    /\ pending = <<>>
    /\ budget \in Budgets
    /\ last = NoOp
    /\ issued = Empty
    /\ returned = Empty
    /\ streak = <<>>
    /\ tabs = NoTabs
    /\ watch = NoPage
    /\ uploader = NoUploader
    /\ recorder = NoRecorder
    /\ home = NoHome
    /\ trimmer = NoTrimmer

\* the millisecond clock behind Date.now()
Tick ==
    /\ now < budget.time
    /\ now' = now + 1
    /\ UNCHANGED <<videos, blobs, analytics, pending, budget, last,
                   issued, returned, streak>>
    /\ UNCHANGED clientVars

\* `${Date.now()}-${Math.random().toString(36).substr(2, 9)}`
generateId(t, rnd) == <<t, rnd>>

\* the record built with the share URL of the first id of the clock
VideoDataOneUrl(id, metadata) ==
    [id |-> id, title |-> metadata.title, filename |-> metadata.filename,
     duration |-> metadata.duration, size |-> metadata.size,
     createdAt |-> metadata.createdAt,
     shareUrl |-> ShareUrl(generateId(0, 0))]

\* { id, ...metadata, shareUrl }: the record uploadVideo builds and returns
VideoData(id, metadata) ==
    [id |-> id, title |-> metadata.title, filename |-> metadata.filename,
     duration |-> metadata.duration, size |-> metadata.size,
     createdAt |-> metadata.createdAt, shareUrl |-> ShareUrl(id)]

\* uploadVideo up to the await of blobToBase64 (lines 54-59)
StartUpload ==
    /\ budget.uploads > 0
    /\ Len(pending) < budget.pending
    /\ \E rnd \in 0..MaxRand, m \in Metas, f \in Files :
          LET id == generateId(now, rnd)
          IN /\ pending' = Append(pending, [id |-> id, meta |-> m, file |-> f])
             /\ issued' = Put(issued, id, IF id \in DOMAIN issued
                                           THEN issued[id] + 1 ELSE 1)
    /\ budget' = [budget EXCEPT !.uploads = @ - 1]
    /\ UNCHANGED <<now, videos, blobs, analytics, last, returned, streak>>
    /\ UNCHANGED clientVars

\* uploadVideo from the resolution of blobToBase64 to its return or throw
\* (lines 59-103), for the i-th call in flight
UploadReturns(i) ==
        LET p == pending[i]
            videoData == VideoData(p.id, p.meta)
            base64 == blobToBase64(p.file)
            r == uploadVideo(Store, videoData, base64)
        IN /\ videos' = r.store.videos
           /\ blobs' = r.store.blobs
           /\ analytics' = r.store.analytics
           /\ pending' = Remove(pending, i)
           /\ last' = [op |-> "uploadVideo", id |-> p.id,
                       outcome |-> r.outcome, note |-> r.first]
           /\ returned' =
                  IF r.outcome = "CapacityExceeded"
                  THEN Drop(returned, r.evicted)
                  ELSE Put(Drop(returned, r.evicted), p.id,
                           [videoData |-> videoData, base64 |-> base64])
           /\ UNCHANGED <<now, budget, issued>>
           /\ UNCHANGED clientVars

FinishUpload ==
    \E i \in 1..Len(pending) : UploadReturns(i) /\ UNCHANGED streak

\* blobToBase64 rejects (reader.onerror): uploadVideo throws before any write
ReadError ==
    \E i \in 1..Len(pending) :
        /\ pending' = Remove(pending, i)
        /\ last' = [NoOp EXCEPT !.op = "uploadVideo", !.id = pending[i].id,
                                !.outcome = "ReadError"]
        /\ UNCHANGED <<now, videos, blobs, analytics, budget, issued,
                       returned, streak>>
        /\ UNCHANGED clientVars

DeleteVideo ==
    \E id \in Ids :
        LET st == deleteVideo(Store, id)
        IN /\ videos' = st.videos
           /\ blobs' = st.blobs
           /\ analytics' = st.analytics
           /\ last' = [NoOp EXCEPT !.op = "deleteVideo", !.id = id,
                                   !.outcome = IF HasId(videos, id)
                                               THEN "done" ELSE "absent",
                                   !.note = IF Entries(videos, id) > 1
                                            THEN "many" ELSE "none"]
           /\ returned' = Drop(returned, {id})
           /\ UNCHANGED <<now, pending, budget, issued, streak>>
           /\ UNCHANGED clientVars

\* cleanupOldVideos called on its own (a public static method)
CleanupOldVideos ==
    \E keepCount \in 1..KeepCount :
        LET st == cleanupOldVideos(Store, keepCount)
        IN /\ videos' = st.videos
           /\ blobs' = st.blobs
           /\ analytics' = st.analytics
           /\ last' = [NoOp EXCEPT !.op = "cleanupOldVideos",
                                   !.id = <<keepCount>>,
                                   !.outcome = IF Len(videos) <= keepCount
                                               THEN "nothing" ELSE "cleaned"]
           /\ returned' = Drop(returned, DeletedIds(videos, keepCount))
           /\ UNCHANGED <<now, pending, budget, issued, streak>>
           /\ UNCHANGED clientVars

\* a store write outside uploadVideo: the setItem either fits or throws
\* QuotaExceededError to the caller with nothing written
Write(st, op, id) ==
    /\ videos' = videos
    /\ blobs' = blobs
    /\ analytics' = IF Fits(st) THEN st.analytics ELSE analytics
    /\ last' = [NoOp EXCEPT !.op = op, !.id = id,
                            !.outcome = IF Fits(st) THEN "done"
                                        ELSE "QuotaExceededError"]

IncrementView ==
    /\ budget.views > 0
    /\ budget' = [budget EXCEPT !.views = @ - 1]
    /\ \E id \in Ids :
          IF id \in DOMAIN analytics
          THEN Write(incrementView(Store, id, now), "incrementView", id)
          ELSE /\ last' = [NoOp EXCEPT !.op = "incrementView", !.id = id,
                                       !.outcome = "absent"]
               /\ UNCHANGED <<videos, blobs, analytics>>
    /\ UNCHANGED <<now, pending, issued, returned, streak>>
    /\ UNCHANGED clientVars

RecordCompletion ==
    /\ budget.points > 0
    /\ budget' = [budget EXCEPT !.points = @ - 1]
    /\ \E id \in Ids, wp \in Percentages, wd \in Durations :
          IF id \in DOMAIN analytics
          THEN Write(recordCompletion(Store, id, wp, wd, now),
                     "recordCompletion", id)
          ELSE /\ last' = [NoOp EXCEPT !.op = "recordCompletion", !.id = id,
                                       !.outcome = "absent"]
               /\ UNCHANGED <<videos, blobs, analytics>>
    /\ UNCHANGED <<now, pending, issued, returned, streak>>
    /\ UNCHANGED clientVars

Next ==
    \/ Tick
    \/ StartUpload
    \/ FinishUpload
    \/ ReadError
    \/ DeleteVideo
    \/ CleanupOldVideos
    \/ IncrementView
    \/ RecordCompletion

Spec == Init /\ [][Next]_vars

\* ------------------------------------------------ runs of ordered uploads
\* Sequential uploadVideo calls, each awaited before the next is made, with
\* strictly increasing createdAt (the n-th call passes createdAt = n), on a
\* store whose quota holds four of the smaller videos.  The clock advances
\* between two calls (VideoUploader.handleUpload waits 1500 ms before it
\* calls uploadVideo).
EvictBudget == [uploads |-> EvictUploads, pending |-> 1, views |-> 0,
                points |-> 0, time |-> EvictUploads, quota |-> EvictCapacity]

InitEvict ==
    /\ now = 0
    /\ videos = <<>>
    /\ blobs = Empty
    /\ analytics = Empty
    /\ pending = <<>>
    /\ budget = EvictBudget
    /\ last = NoOp
    /\ issued = Empty
    /\ returned = Empty
    /\ streak = <<>>
    /\ tabs = NoTabs
    /\ watch = NoPage
    /\ uploader = NoUploader
    /\ recorder = NoRecorder
    /\ home = NoHome
    /\ trimmer = NoTrimmer

StartOrderedUpload ==
    /\ budget.uploads > 0
    /\ pending = <<>>
    /\ \E rnd \in 0..MaxRand, f \in Files :
          LET id == generateId(now + 1, rnd)
              m == [title |-> "t", filename |-> "r.webm", duration |-> 4,
                    size |-> 9, createdAt |-> now + 1]
          IN /\ pending' = <<[id |-> id, meta |-> m, file |-> f]>>
             /\ issued' = Put(issued, id, IF id \in DOMAIN issued
                                           THEN issued[id] + 1 ELSE 1)
    /\ budget' = [budget EXCEPT !.uploads = @ - 1]
    /\ now' = now + 1
    /\ UNCHANGED <<videos, blobs, analytics, last, returned, streak>>
    /\ UNCHANGED clientVars

\* the call returns or throws; streak lists the ids of the latest calls in
\* a row that hit the quota in their first attempt and returned a record
FinishOrderedUpload ==
    /\ pending # <<>>
    /\ UploadReturns(1)
    /\ streak' = IF last'.outcome = "storedAfterCleanup"
                 THEN Append(streak, last'.id) ELSE <<>>

NextEvict ==
    \/ StartOrderedUpload
    \/ FinishOrderedUpload

SpecEvict == InitEvict /\ [][NextEvict]_vars

\* ------------------------------------------------------------------ claims
StoredIds == {videos[i].id : i \in 1..Len(videos)}

\* the last call was an uploadVideo that threw the capacity error
UploadFailed == last.op = "uploadVideo" /\ last.outcome = "CapacityExceeded"

\* the last call was an uploadVideo that returned a record
UploadReturned ==
    last.op = "uploadVideo"
    /\ last.outcome \in {"stored", "storedAfterCleanup"}

\* no id was generated twice in this run
NoCollision == \A id \in DOMAIN issued : issued[id] = 1

\* a step that is the end of an uploadVideo call that threw the capacity error
FailedUploadStep ==
    Len(pending') < Len(pending) /\ last'.outcome = "CapacityExceeded"

\* C1: an uploadVideo that fails with the capacity error leaves no list
\* entry, no blob and no analytics entry for the new id.
C1_NoPartialWrite ==
    (UploadFailed /\ NoCollision) =>
        /\ last.id \notin StoredIds
        /\ last.id \notin DOMAIN blobs
        /\ last.id \notin DOMAIN analytics

\* C2: an uploadVideo that fails with the capacity error leaves getVideos()
\* as it was before the call.
C2_ListUnchangedOnFailure ==
    [][(FailedUploadStep /\ NoCollision) => videos' = videos]_vars

\* C3: the persisted video list holds at most one record per id.
C3_OneRecordPerId ==
    NoCollision =>
        \A i, j \in 1..Len(videos) : videos[i].id = videos[j].id => i = j

\* C4: every id generateId produces differs from every id generated before.
C4_FreshIds == \A id \in DOMAIN issued : issued[id] <= 1

\* C5: the record and the payload of a successful uploadVideo are what
\* getVideo and getVideoBlob return until the id is deleted or evicted.
C5_RoundTrip ==
    \A id \in DOMAIN returned :
        /\ getVideo(Store, id) = <<returned[id].videoData>>
        /\ getVideoBlob(Store, id) = <<returned[id].base64>>

\* C6: after deleteVideo(id) the three lookups of id return null.
C6_DeletionIsTotal ==
    last.op = "deleteVideo" =>
        /\ getVideo(Store, last.id) = <<>>
        /\ getVideoBlob(Store, last.id) = <<>>
        /\ getAnalytics(Store, last.id) = <<>>

\* deleteVideo has removed an id that the list held more than once
W6_DeletedDuplicates ==
    /\ last.op = "deleteVideo" /\ last.outcome = "done" /\ last.note = "many"
    /\ getVideo(Store, last.id) = <<>>
    /\ getVideoBlob(Store, last.id) = <<>>
    /\ getAnalytics(Store, last.id) = <<>>

\* C7: a blob or an analytics entry exists only for an id the list holds.
C7_NoOrphans ==
    \A id \in (DOMAIN blobs) \cup (DOMAIN analytics) : id \in StoredIds

\* a failed uploadVideo after an eviction has left its blob behind, and the
\* list holds its record
W7_FailedUploadLeftBlob ==
    /\ UploadFailed
    /\ Len(videos) = KeepCount + 1
    /\ last.id \in DOMAIN blobs
    /\ last.id \in StoredIds

\* C8: every listed record has its blob and its analytics entry, and after
\* a successful uploadVideo the new id's analytics entry is the zero entry.
C8_RecordComplete ==
    NoCollision =>
    /\ \A id \in StoredIds : id \in DOMAIN blobs /\ id \in DOMAIN analytics
    /\ UploadReturned => getAnalytics(Store, last.id) = <<ZeroAnalytics(last.id)>>

Absent(id) ==
    id \notin StoredIds /\ id \notin DOMAIN blobs /\ id \notin DOMAIN analytics

Present(id) ==
    id \in StoredIds /\ id \in DOMAIN blobs /\ id \in DOMAIN analytics

\* C9: after five uploadVideo calls in a row with increasing createdAt that
\* each hit the quota in their first attempt, the two oldest of the five
\* are gone from the list, the blobs and the analytics, and the three
\* newest are present in all three.
C9_EvictionKeepsThree ==
    (Len(streak) = 5 /\ NoCollision) =>
        /\ \A i \in 1..2 : Absent(streak[i])
        /\ \A i \in 3..5 : Present(streak[i])

\* a step that is a call of cleanupOldVideos(k)
CleanupStep(k) ==
    /\ last'.op = "cleanupOldVideos"
    /\ last'.id = <<k>>
    /\ UNCHANGED <<now, pending, budget, issued>>

\* the entries of the list vs at the indices I, as a bag: how often r occurs
Occurs(vs, I, r) == Cardinality({i \in I : vs[i] = r})

\* the kept entries are the list entries at the indices I
KeptAre(I) ==
    /\ Len(videos') = Cardinality(I)
    /\ \A n \in 1..Len(videos') :
          Occurs(videos', 1..Len(videos'), videos'[n])
              = Occurs(videos, I, videos'[n])

SameItems(id) ==
    /\ getVideoBlob(Store, id) = getVideoBlob(StoreOf(videos', blobs', analytics'), id)
    /\ getAnalytics(Store, id) = getAnalytics(StoreOf(videos', blobs', analytics'), id)

\* C10: cleanupOldVideos(K) changes nothing on a list of at most K records;
\* on a longer list it keeps exactly the K records with the greatest
\* createdAt with their blobs and analytics untouched, and removes every
\* other record with its blob and its analytics.
C10_CleanupKeepsNewest ==
    [][\A k \in 1..KeepCount : (CleanupStep(k) /\ NoCollision) =>
          IF Len(videos) <= k
          THEN UNCHANGED <<videos, blobs, analytics>>
          ELSE \E I \in SUBSET (1..Len(videos)) :
                  /\ Cardinality(I) = k
                  /\ KeptAre(I)
                  /\ \A i \in I, j \in (1..Len(videos)) \ I :
                        GetTime(videos[j].createdAt) <= GetTime(videos[i].createdAt)
                  /\ \A i \in I : SameItems(videos[i].id)
                  /\ \A j \in (1..Len(videos)) \ I :
                        /\ videos[j].id \notin DOMAIN blobs'
                        /\ videos[j].id \notin DOMAIN analytics']_vars

\* a step that is the end of an uploadVideo call that returned a record
\* after its first attempt was rejected and cleanupOldVideos(3) had run
EvictingUploadStep ==
    Len(pending') < Len(pending) /\ last'.outcome = "storedAfterCleanup"

Min(a, b) == IF a < b THEN a ELSE b

\* the list after the step holds the list entries at the indices I of the
\* list before it, and one record of the id the call created
KeptPlusNew(I) ==
    /\ Len(videos') = Cardinality(I) + 1
    /\ Entries(videos', last'.id) = 1 + Cardinality({i \in I : videos[i].id = last'.id})
    /\ \A n \in 1..Len(videos') :
          videos'[n].id # last'.id =>
              Occurs(videos', 1..Len(videos'), videos'[n])
                  = Occurs(videos, I, videos'[n])

\* C11: an uploadVideo that succeeds through eviction leaves the new record
\* plus the min(N, 3) newest of the N records the list held before the
\* call; the new record is not counted among the three and is not evicted.
C11_EvictionBeforeNewRecord ==
    [][(EvictingUploadStep /\ NoCollision) =>
          \E I \in SUBSET (1..Len(videos)) :
              /\ Cardinality(I) = Min(Len(videos), KeepCount)
              /\ KeptPlusNew(I)
              /\ \A i \in I, j \in (1..Len(videos)) \ I :
                    GetTime(videos[j].createdAt) <= GetTime(videos[i].createdAt)]_vars

\* ------------------------------------- uploads hit by errors of other kinds
\* The statements of one attempt that can throw: the read of the list and
\* the three writes.  An error that is not a DOMException named
\* QuotaExceededError (storage access denied, a list that does not parse)
\* is a fault at one of them; "none" is an attempt without such a fault.
Faults == {"none", "getVideos", "list", "blob", "analytics"}

\* One attempt (lines 69-77 and 89-93) in which the statement named by
\* fault throws an error that is not a quota rejection.  A write that does
\* not fit throws QuotaExceededError; the writes before the throw stay.
WriteAllOrThrow(st, videoData, base64, fault) ==
    LET s1 == [st EXCEPT !.videos = Append(getVideos(st), JsonVideo(videoData))]
        s2 == [s1 EXCEPT !.blobs = Put(s1.blobs, videoData.id, base64)]
        s3 == [s2 EXCEPT !.analytics =
                  Put(s2.analytics, videoData.id, ZeroAnalytics(videoData.id))]
        Thrown(s, stmt, err) ==
            [store |-> s, ok |-> FALSE, at |-> stmt, error |-> err]
    IN  IF fault = "getVideos" THEN Thrown(st, "getVideos", "other")
        ELSE IF ~Fits(s1) THEN Thrown(st, "list", "quota")
        ELSE IF fault = "list" THEN Thrown(st, "list", "other")
        ELSE IF ~Fits(s2) THEN Thrown(s1, "blob", "quota")
        ELSE IF fault = "blob" THEN Thrown(s1, "blob", "other")
        ELSE IF ~Fits(s3) THEN Thrown(s2, "analytics", "quota")
        ELSE IF fault = "analytics" THEN Thrown(s2, "analytics", "other")
        ELSE [store |-> s3, ok |-> TRUE, at |-> "none", error |-> "none"]

\* uploadVideo whose catch block throws the capacity error at the first
\* quota rejection, with no cleanupOldVideos and no second attempt
uploadVideoNoRetry(st, videoData, base64, fault, retryFault) ==
    LET first == WriteAllOrThrow(st, videoData, base64, fault)
    IN  [store |-> first.store,
         outcome |-> IF first.ok THEN "stored"
                     ELSE IF first.error = "other" THEN "OtherError"
                     ELSE "CapacityExceeded",
         first |-> first.at]

\* uploadVideo after the await (lines 67-103): the catch block retries
\* after cleanupOldVideos(3) when the error is a QuotaExceededError, turns
\* every error of the retry into the capacity error, and rethrows an error
\* of another kind (line 102)
uploadVideoOrThrow(st, videoData, base64, fault, retryFault) ==
    LET first == WriteAllOrThrow(st, videoData, base64, fault)
        retry == WriteAllOrThrow(cleanupOldVideos(first.store, KeepCount),
                                 videoData, base64, retryFault)
    IN  IF first.ok
        THEN [store |-> first.store, outcome |-> "stored", first |-> "none"]
        ELSE IF first.error = "other"
        THEN [store |-> first.store, outcome |-> "OtherError",
              first |-> first.at]
        ELSE [store |-> retry.store,
              outcome |-> IF retry.ok THEN "storedAfterCleanup"
                          ELSE "CapacityExceeded",
              first |-> first.at]

FaultBudget == [uploads |-> FaultUploads, pending |-> 1, views |-> 0,
                points |-> 0, time |-> FaultUploads, quota |-> EvictCapacity]

InitFault ==
    /\ now = 0
    /\ videos = <<>>
    /\ blobs = Empty
    /\ analytics = Empty
    /\ pending = <<>>
    /\ budget = FaultBudget
    /\ last = NoOp
    /\ issued = Empty
    /\ returned = Empty
    /\ streak = <<>>
    /\ tabs = NoTabs
    /\ watch = NoPage
    /\ uploader = NoUploader
    /\ recorder = NoRecorder
    /\ home = NoHome
    /\ trimmer = NoTrimmer

\* uploadVideo up to the await, called when no call is in flight, with
\* createdAt and the id both taken from the advancing clock
StartFaultyUpload ==
    /\ budget.uploads > 0
    /\ pending = <<>>
    /\ \E f \in Files :
          LET id == generateId(now + 1, 0)
              m == [title |-> "t", filename |-> "r.webm", duration |-> 4,
                    size |-> 9, createdAt |-> now + 1]
          IN /\ pending' = <<[id |-> id, meta |-> m, file |-> f]>>
             /\ issued' = Put(issued, id, 1)
    /\ budget' = [budget EXCEPT !.uploads = @ - 1]
    /\ now' = now + 1
    /\ UNCHANGED <<videos, blobs, analytics, last, returned, streak>>
    /\ UNCHANGED clientVars

\* the ways the pending call can end, over the faults that can hit it
Endings ==
    LET p == pending[1]
        videoData == [id |-> p.id, title |-> p.meta.title,
                      filename |-> p.meta.filename,
                      duration |-> p.meta.duration,
                      size |-> p.meta.size,
                      createdAt |-> p.meta.createdAt,
                      shareUrl |-> ShareUrl(p.id)]
    IN {uploadVideoOrThrow(Store, videoData, blobToBase64(p.file),
                           fault, retryFault) :
            fault \in Faults, retryFault \in Faults}

\* the pending uploadVideo call returns or throws
FinishFaultyUpload ==
    /\ pending # <<>>
    /\ \E r \in Endings :
          /\ videos' = r.store.videos
          /\ blobs' = r.store.blobs
          /\ analytics' = r.store.analytics
          /\ last' = [op |-> "uploadVideo", id |-> pending[1].id,
                      outcome |-> r.outcome, note |-> r.first]
    /\ pending' = <<>>
    /\ UNCHANGED <<now, budget, issued, returned, streak>>
    /\ UNCHANGED clientVars

NextFault ==
    \/ StartFaultyUpload
    \/ FinishFaultyUpload

SpecFault == InitFault /\ [][NextFault]_vars

\* a step that ends an uploadVideo call
UploadEndStep == pending # <<>> /\ pending' = <<>>

\* the records of the list vs that are not the record of id
Others(vs, id) == SelectSeq(vs, LAMBDA v : v.id # id)

\* vs is the beginning of ws
IsPrefix(vs, ws) == Len(vs) <= Len(ws) /\ SubSeq(ws, 1, Len(vs)) = vs

\* every item of the map f is in the map g with the same value
Within(f, g) == \A k \in DOMAIN f : k \in DOMAIN g /\ g[k] = f[k]

\* C12: an uploadVideo call ends with a record or an error after at most
\* two attempts (the list holds its record at most twice); when it throws
\* the capacity error the first attempt was rejected for quota, the
\* eviction has run (at most three other records remain) and the retry has
\* failed (the record has no analytics entry); when it rethrows an error of
\* another kind nothing was evicted and the record was pushed at most once.
C12_OneEvictionOneRetry ==
    [][UploadEndStep =>
          /\ last'.outcome \in {"stored", "storedAfterCleanup",
                                 "CapacityExceeded", "OtherError"}
          /\ Entries(videos', last'.id) <= 2
          /\ last'.outcome = "CapacityExceeded" =>
                /\ last'.note \in {"list", "blob", "analytics"}
                /\ Len(Others(videos', last'.id)) <= KeepCount
                /\ last'.id \notin DOMAIN analytics'
          /\ last'.outcome = "OtherError" =>
                /\ IsPrefix(videos, videos')
                /\ Len(videos') <= Len(videos) + 1
                /\ Within(blobs, blobs')
                /\ Within(analytics, analytics')
                /\ last'.id \notin DOMAIN analytics']_vars

\* the fifth uploadVideo was rejected at its list write, evicted a record,
\* wrote its record in the retry and threw the capacity error
W12_CapacityErrorAfterEviction ==
    /\ UploadFailed
    /\ last.note = "list"
    /\ Cardinality(DOMAIN issued) = 5
    /\ Len(Others(videos, last.id)) = KeepCount
    /\ last.id \in StoredIds
    /\ last.id \notin DOMAIN analytics

\* a step that is a call of incrementView(id)
IncrementViewStep(id) ==
    /\ budget'.views = budget.views - 1
    /\ last'.op = "incrementView"
    /\ last'.id = id

\* C13: while the analytics record of an id exists its views never
\* decreases, and every incrementView(id) call raises views by exactly one
\* and sets lastViewed to the time of the call.
C13_ViewsCountCalls ==
    [][NoCollision =>
          \A id \in (DOMAIN analytics) \cap (DOMAIN analytics') :
              /\ analytics'[id].views >= analytics[id].views
              /\ IncrementViewStep(id) =>
                    /\ analytics'[id].views = analytics[id].views + 1
                    /\ analytics'[id].lastViewed = <<now>>]_vars

\* ------------------------------------------- runs with several viewings
\* One page session's worth of analytics calls on a store of at most
\* LedgerUploads videos: LedgerViews incrementView calls and LedgerPoints
\* recordCompletion calls, in any order with the other store operations.
LedgerBudget == [uploads |-> LedgerUploads, pending |-> 1,
                 views |-> LedgerViews, points |-> LedgerPoints,
                 time |-> MaxTime, quota |-> LedgerCapacity]

InitLedger ==
    /\ now = 0
    /\ videos = <<>>
    /\ blobs = Empty
    /\ analytics = Empty
    /\ pending = <<>>
    /\ budget = LedgerBudget
    /\ last = NoOp
    /\ issued = Empty
    /\ returned = Empty
    /\ streak = <<>>
    /\ tabs = NoTabs
    /\ watch = NoPage
    /\ uploader = NoUploader
    /\ recorder = NoRecorder
    /\ home = NoHome
    /\ trimmer = NoTrimmer

SpecLedger == InitLedger /\ [][Next]_vars

\* C14: in every analytics record averageWatchPercentage is the sum of the
\* watchPercentage values of completionData divided by their count, and 0
\* while completionData is empty.
C14_AverageIsMean ==
    \A id \in DOMAIN analytics :
        LET a == analytics[id]
        IN /\ a.averageWatchPercentage.den > 0
           /\ a.averageWatchPercentage.num * Len(a.completionData)
                 = SumPercent(a.completionData) * a.averageWatchPercentage.den
           /\ a.completionData = <<>> => a.averageWatchPercentage.num = 0

\* three recordCompletion calls with percentages 50, 150, 150 have left
\* the average 350/3
W14_ThreePoints ==
    \E id \in DOMAIN analytics :
        /\ Len(analytics[id].completionData) = 3
        /\ analytics[id].completionData[1].watchPercentage = 50
        /\ analytics[id].completionData[2].watchPercentage = 150
        /\ analytics[id].averageWatchPercentage = [num |-> 350, den |-> 3]

\* a step that is a call of recordCompletion(id, ...)
RecordCompletionStep(id) ==
    /\ budget'.points = budget.points - 1
    /\ last'.op = "recordCompletion"
    /\ last'.id = id

\* C15: while the analytics record of an id exists the points stored in
\* completionData stay where they are, and every recordCompletion(id, p, d)
\* call appends exactly one point, with p and d as passed.
C15_AppendOnly ==
    [][NoCollision =>
          \A id \in (DOMAIN analytics) \cap (DOMAIN analytics') :
              /\ IsPrefix(analytics[id].completionData,
                          analytics'[id].completionData)
              /\ RecordCompletionStep(id) =>
                    \E wp \in Percentages, wd \in Durations :
                        analytics'[id].completionData =
                            Append(analytics[id].completionData,
                                   [timestamp |-> now,
                                    watchPercentage |-> wp,
                                    watchDuration |-> wd])]_vars

\* a step that is a call of deleteVideo(id)
DeleteVideoStep(id) ==
    /\ last'.op = "deleteVideo"
    /\ last'.id = id
    /\ UNCHANGED <<now, pending, budget, issued>>

\* a step that is a call of one of the three methods with an id the store
\* does not know: deleteVideo with an id that has no record, no blob and no
\* analytics entry, incrementView or recordCompletion with an id that has
\* no analytics entry
UnknownIdStep ==
    \E id \in Ids :
        \/ DeleteVideoStep(id) /\ Absent(id)
        \/ IncrementViewStep(id) /\ id \notin DOMAIN analytics
        \/ RecordCompletionStep(id) /\ id \notin DOMAIN analytics

DistinctIds == \A i, j \in 1..Len(videos) : videos[i].id = videos[j].id => i = j

\* C17: after uploadVideo calls made one after the other, the records of
\* getVideos() stand in the order in which uploadVideo created them (the
\* time in the id of an earlier record is less than that of a later one).
C17_InsertionOrder ==
    DistinctIds =>
        \A i, j \in 1..Len(getVideos(Store)) :
            i < j => getVideos(Store)[i].id[1] < getVideos(Store)[j].id[1]

\* ------------------------------------------------------ runs with lookups
LookupOps == {"getVideos", "getVideo", "getVideoBlob", "getAnalytics",
              "getAllAnalytics"}

\* whether the lookup returns something other than null: getVideos and
\* getAllAnalytics always return a collection
Found(op, st, id) ==
    CASE op = "getVideos" -> TRUE
      [] op = "getVideo" -> getVideo(st, id) # <<>>
      [] op = "getVideoBlob" -> getVideoBlob(st, id) # <<>>
      [] op = "getAnalytics" -> getAnalytics(st, id) # <<>>
      [] op = "getAllAnalytics" -> TRUE

\* what a lookup call leaves in last
Looked(op, id) ==
    [NoOp EXCEPT !.op = op,
                 !.id = IF op \in {"getVideos", "getAllAnalytics"}
                        THEN <<>> ELSE id,
                 !.outcome = IF Found(op, Store, id) THEN "found" ELSE "null"]

\* a getAnalytics that stores a zero entry for an id it does not find
LookupOrCreate ==
    \E op \in LookupOps, id \in Ids :
        /\ last' = Looked(op, id)
        /\ analytics' = IF op = "getAnalytics" /\ id \notin DOMAIN analytics
                        THEN Put(analytics, id, ZeroAnalytics(id))
                        ELSE analytics
        /\ UNCHANGED <<now, videos, blobs, pending, budget, issued,
                       returned, streak>>
        /\ UNCHANGED clientVars

\* one call of a lookup method: getItem and JSON.parse, no setItem and no
\* removeItem
Lookup ==
    \E op \in LookupOps, id \in Ids :
        /\ last' = Looked(op, id)
        /\ UNCHANGED <<now, videos, blobs, analytics, pending, budget,
                       issued, returned, streak>>
        /\ UNCHANGED clientVars

LookupBudget == [uploads |-> LedgerUploads, pending |-> 1,
                 views |-> MaxViews, points |-> MaxPoints,
                 time |-> MaxTime, quota |-> Capacity]

InitLookup ==
    /\ now = 0
    /\ videos = <<>>
    /\ blobs = Empty
    /\ analytics = Empty
    /\ pending = <<>>
    /\ budget = LookupBudget
    /\ last = NoOp
    /\ issued = Empty
    /\ returned = Empty
    /\ streak = <<>>
    /\ tabs = NoTabs
    /\ watch = NoPage
    /\ uploader = NoUploader
    /\ recorder = NoRecorder
    /\ home = NoHome
    /\ trimmer = NoTrimmer

NextLookup ==
    \/ Next
    \/ Lookup

SpecLookup == InitLookup /\ [][NextLookup]_vars

\* a step that is a call of one of the five lookup methods
LookupStep ==
    /\ last'.op \in LookupOps
    /\ UNCHANGED <<now, pending, budget, issued>>

\* C18: a call of getVideos, getVideo, getVideoBlob, getAnalytics or
\* getAllAnalytics, with a known or an unknown id, leaves the list, the
\* blobs and the analytics as they were.
C18_LookupsArePure ==
    [][LookupStep => UNCHANGED <<videos, blobs, analytics>>]_vars

\* getAnalytics has returned null for an unknown id on a store that holds
\* a record with a view
W18_LookedUpUnknown ==
    /\ last.op = "getAnalytics" /\ last.outcome = "null"
    /\ last.id \notin DOMAIN analytics
    /\ \E id \in StoredIds : Present(id) /\ analytics[id].views = 1

\* ------------------------------------------------- two tabs on one store
\* Two tabs of the same origin share localStorage.  Each runs the store's
\* methods on its own thread, so between the getItem and the setItem of a
\* method in one tab the other tab can read and write the same key.  Each
\* tab makes one call; its steps are the localStorage accesses of the
\* method in program order.
Tabs == 1..2

\* a tab: the method it runs, the id and the completion point it was
\* called with, the access it is at, and the list and the analytics map it
\* has parsed
Idle == [op |-> "none", id |-> <<>>, point |-> <<>>, pc |-> "idle",
         list |-> <<>>, map |-> Empty]

\* the record and the payload of the uploads of this run
TabVideoData(id) ==
    [id |-> id, title |-> "t", filename |-> "r.webm", duration |-> 4,
     size |-> 9, createdAt |-> 1, shareUrl |-> ShareUrl(id)]

TabBudget == [uploads |-> 0, pending |-> 0, views |-> 0, points |-> 0,
              time |-> MaxTime, quota |-> TabsCapacity]

\* the store after one uploadVideo, both tabs idle
InitTabs ==
    /\ now = 1
    /\ budget = TabBudget
    /\ LET st == uploadVideo(StoreOf(<<>>, Empty, Empty),
                             TabVideoData(generateId(0, 0)),
                             blobToBase64("f1")).store
       IN /\ videos = st.videos
          /\ blobs = st.blobs
          /\ analytics = st.analytics
    /\ pending = <<>>
    /\ last = NoOp
    /\ issued = Put(Empty, generateId(0, 0), 1)
    /\ returned = Empty
    /\ streak = <<>>
    /\ tabs = [t \in Tabs |-> Idle]
    /\ watch = NoPage
    /\ uploader = NoUploader
    /\ recorder = NoRecorder
    /\ home = NoHome
    /\ trimmer = NoTrimmer

storeVars == <<now, videos, blobs, analytics, pending, budget, last,
               issued, returned, streak, watch, uiVars>>

\* the tab calls a method: uploadVideo (from its try block on, with a new
\* id), deleteVideo, incrementView or recordCompletion
TabCall(t) ==
    /\ tabs[t].pc = "idle"
    /\ \/ \E rnd \in 0..MaxRand :
             tabs' = [tabs EXCEPT ![t] =
                         [Idle EXCEPT !.op = "uploadVideo",
                                      !.id = generateId(now, rnd),
                                      !.pc = "getVideos"]]
       \/ \E id \in Ids :
             tabs' = [tabs EXCEPT ![t] =
                         [Idle EXCEPT !.op = "deleteVideo", !.id = id,
                                      !.pc = "getVideos"]]
       \/ \E id \in Ids :
             tabs' = [tabs EXCEPT ![t] =
                         [Idle EXCEPT !.op = "incrementView", !.id = id,
                                      !.pc = "getAllAnalytics"]]
       \/ \E id \in Ids, wp \in Percentages, wd \in Durations :
             tabs' = [tabs EXCEPT ![t] =
                         [Idle EXCEPT !.op = "recordCompletion", !.id = id,
                                      !.point = <<wp, wd>>,
                                      !.pc = "getAllAnalytics"]]
    /\ UNCHANGED storeVars

\* const videos = this.getVideos()
TabGetVideos(t) ==
    /\ tabs[t].pc = "getVideos"
    /\ tabs' = [tabs EXCEPT ![t].list = getVideos(Store),
                            ![t].pc = "setVideos"]
    /\ UNCHANGED storeVars

\* the list the tab writes: the parsed list with the record pushed
\* (uploadVideo) or with the records of the id filtered out (deleteVideo)
ListToWrite(tb, list) ==
    IF tb.op = "uploadVideo"
    THEN Append(list, JsonVideo(TabVideoData(tb.id)))
    ELSE SelectSeq(list, LAMBDA v : v.id # tb.id)

\* a list write that applies the tab's change to the list stored now
TabSetVideosMerged(t) ==
    /\ tabs[t].pc = "setVideos"
    /\ videos' = ListToWrite(tabs[t], videos)
    /\ tabs' = [tabs EXCEPT ![t].pc = "blob"]
    /\ UNCHANGED <<now, blobs, analytics, pending, budget, last, issued,
                   returned, streak, watch, uiVars>>

\* localStorage.setItem(STORAGE_KEY_VIDEOS, JSON.stringify(videos))
TabSetVideos(t) ==
    /\ tabs[t].pc = "setVideos"
    /\ videos' = ListToWrite(tabs[t], tabs[t].list)
    /\ tabs' = [tabs EXCEPT ![t].pc = "blob"]
    /\ UNCHANGED <<now, blobs, analytics, pending, budget, last, issued,
                   returned, streak, watch, uiVars>>

\* setItem(`video_${id}`, base64) of uploadVideo, removeItem(`video_${id}`)
\* of deleteVideo
TabBlob(t) ==
    /\ tabs[t].pc = "blob"
    /\ blobs' = IF tabs[t].op = "uploadVideo"
                THEN Put(blobs, tabs[t].id, blobToBase64("f1"))
                ELSE Drop(blobs, {tabs[t].id})
    /\ tabs' = [tabs EXCEPT ![t].pc = "getAllAnalytics"]
    /\ UNCHANGED <<now, videos, analytics, pending, budget, last, issued,
                   returned, streak, watch, uiVars>>

\* const analytics = this.getAllAnalytics()
TabGetAllAnalytics(t) ==
    /\ tabs[t].pc = "getAllAnalytics"
    /\ tabs' = [tabs EXCEPT ![t].map = analytics, ![t].pc = "setAnalytics"]
    /\ UNCHANGED storeVars

\* the analytics map the tab writes, made from the map it has parsed
MapToWrite(tb, t) ==
    LET st == StoreOf(<<>>, Empty, tb.map)
    IN CASE tb.op = "uploadVideo" -> Put(tb.map, tb.id, ZeroAnalytics(tb.id))
         [] tb.op = "deleteVideo" -> deleteAnalytics(st, tb.id).analytics
         [] tb.op = "incrementView" -> incrementView(st, tb.id, t).analytics
         [] tb.op = "recordCompletion" ->
                recordCompletion(st, tb.id, tb.point[1], tb.point[2],
                                 t).analytics

\* localStorage.setItem(STORAGE_KEY_ANALYTICS, JSON.stringify(analytics));
\* incrementView and recordCompletion write only when the parsed map has
\* the id
TabSetAnalytics(t) ==
    /\ tabs[t].pc = "setAnalytics"
    /\ analytics' =
          IF tabs[t].op \in {"incrementView", "recordCompletion"}
             /\ tabs[t].id \notin DOMAIN tabs[t].map
          THEN analytics
          ELSE MapToWrite(tabs[t], now)
    /\ tabs' = [tabs EXCEPT ![t].pc = "done"]
    /\ UNCHANGED <<now, videos, blobs, pending, budget, last, issued,
                   returned, streak, watch, uiVars>>

NextTabs ==
    \E t \in Tabs :
        \/ TabCall(t)
        \/ TabGetVideos(t)
        \/ TabSetVideos(t)
        \/ TabBlob(t)
        \/ TabGetAllAnalytics(t)
        \/ TabSetAnalytics(t)

SpecTabs == InitTabs /\ [][NextTabs]_vars

\* a step in which tab t writes the list, or the analytics map
ListWriteStep(t) == tabs[t].pc = "setVideos" /\ tabs'[t].pc = "blob"

MapWriteStep(t) ==
    /\ tabs[t].pc = "setAnalytics" /\ tabs'[t].pc = "done"
    /\ tabs[t].op \in {"incrementView", "recordCompletion"} =>
          tabs[t].id \in DOMAIN tabs[t].map

\* C19: a write replaces the whole stored collection by what the writing
\* tab had read, with only that tab's change applied.  The records of
\* other ids in the list written are those of the list the tab read, the
\* analytics entries of other ids are those of the map it read, and the
\* entry of its own id is made from the entry it read, so whatever the
\* other tab wrote in between is gone.
C19_LastWriterWins ==
    [][\A t \in Tabs :
          /\ ListWriteStep(t) =>
                Others(videos', tabs[t].id) = Others(tabs[t].list, tabs[t].id)
          /\ MapWriteStep(t) =>
                /\ \A k \in Ids \ {tabs[t].id} :
                      /\ k \in DOMAIN analytics' <=> k \in DOMAIN tabs[t].map
                      /\ k \in DOMAIN tabs[t].map =>
                            analytics'[k] = tabs[t].map[k]
                /\ tabs[t].op = "incrementView" =>
                      /\ analytics'[tabs[t].id].views
                            = tabs[t].map[tabs[t].id].views + 1
                      /\ analytics'[tabs[t].id].completionData
                            = tabs[t].map[tabs[t].id].completionData
                /\ tabs[t].op = "recordCompletion" =>
                      /\ analytics'[tabs[t].id].views
                            = tabs[t].map[tabs[t].id].views
                      /\ Len(analytics'[tabs[t].id].completionData)
                            = Len(tabs[t].map[tabs[t].id].completionData) + 1]_vars

\* both tabs have finished an uploadVideo of different ids and the list
\* holds only the record of the second tab; both have finished their
\* initializeAnalytics and the map holds only the entry of the first
W19_LostUpdates ==
    /\ \A t \in Tabs : tabs[t].op = "uploadVideo" /\ tabs[t].pc = "done"
    /\ tabs[1].id # tabs[2].id
    /\ tabs[1].id \notin StoredIds /\ tabs[2].id \in StoredIds
    /\ tabs[1].id \in DOMAIN blobs /\ tabs[2].id \in DOMAIN blobs
    /\ tabs[1].id \in DOMAIN analytics /\ tabs[2].id \notin DOMAIN analytics

\* ------------------------------------------------------- the watch page
WatchBudget == [uploads |-> WatchUploads, pending |-> 1,
                views |-> WatchViews, points |-> 0,
                time |-> MaxTime, quota |-> WatchCapacity]

InitWatch ==
    /\ now = 0
    /\ videos = <<>>
    /\ blobs = Empty
    /\ analytics = Empty
    /\ pending = <<>>
    /\ budget = WatchBudget
    /\ last = NoOp
    /\ issued = Empty
    /\ returned = Empty
    /\ streak = <<>>
    /\ tabs = NoTabs
    /\ watch = NoPage
    /\ uploader = NoUploader
    /\ recorder = NoRecorder
    /\ home = NoHome
    /\ trimmer = NoTrimmer

pageFrame == <<now, videos, blobs, analytics, pending, budget, last,
               issued, returned, streak, tabs, uiVars>>

\* a page-view session begins: /watch/[id] is opened and WatchPage is
\* mounted with fresh refs and state
MountWatchPage ==
    /\ ~watch.mounted
    /\ \E id \in Ids :
          watch' = [NoPage EXCEPT !.mounted = TRUE, !.videoId = id]
    /\ UNCHANGED pageFrame

\* the session ends: the page is left or closed
UnmountWatchPage ==
    /\ watch.mounted
    /\ watch' = [watch EXCEPT !.mounted = FALSE]
    /\ UNCHANGED pageFrame

\* the route parameter changes while the page stays mounted
SetVideoId ==
    /\ watch.mounted
    /\ \E id \in Ids \ {watch.videoId} :
          watch' = [watch EXCEPT !.videoId = id]
    /\ UNCHANGED pageFrame

\* loadVideo calling incrementView on every run, without viewCountedRef
LoadVideoUnguarded ==
    /\ watch.mounted
    /\ watch.loads < MaxLoads
    /\ LET id == watch.videoId
           videoData == getVideo(Store, id)
           blob == getVideoBlob(Store, id)
       IN IF videoData # <<>> /\ blob # <<>>
          THEN /\ budget.views > 0
               /\ budget' = [budget EXCEPT !.views = @ - 1]
               /\ IF id \in DOMAIN analytics
                  THEN Write(incrementView(Store, id, now),
                             "incrementView", id)
                  ELSE /\ last' = [NoOp EXCEPT !.op = "incrementView",
                                               !.id = id,
                                               !.outcome = "absent"]
                       /\ UNCHANGED <<videos, blobs, analytics>>
               /\ watch' =
                     IF last'.outcome = "QuotaExceededError"
                     THEN [watch EXCEPT !.mounted = FALSE,
                                        !.video = videoData,
                                        !.loads = @ + 1, !.calls = @ + 1]
                     ELSE [watch EXCEPT !.video = videoData,
                                        !.viewCountedRef = TRUE,
                                        !.loading = FALSE,
                                        !.loads = @ + 1, !.calls = @ + 1]
          ELSE /\ watch' = [watch EXCEPT !.loading = FALSE, !.loads = @ + 1]
               /\ last' = [NoOp EXCEPT !.op = "loadVideo", !.id = id,
                                       !.outcome = "notFound"]
               /\ UNCHANGED <<videos, blobs, analytics, budget>>
    /\ UNCHANGED <<now, pending, issued, returned, streak, tabs, uiVars>>

\* loadVideo (lines 28-50); the effect runs it after the mount and after
\* every change of videoId, and React's StrictMode runs the effect of a
\* mount twice.  An error thrown by incrementView leaves loadVideo before
\* viewCountedRef is set and, thrown from the effect, unmounts the page.
LoadVideo ==
    /\ watch.mounted
    /\ watch.loads < MaxLoads
    /\ LET id == watch.videoId
           videoData == getVideo(Store, id)
           blob == getVideoBlob(Store, id)
       IN IF videoData # <<>> /\ blob # <<>>
          THEN IF ~watch.viewCountedRef
               THEN /\ budget.views > 0
                    /\ budget' = [budget EXCEPT !.views = @ - 1]
                    /\ IF id \in DOMAIN analytics
                       THEN Write(incrementView(Store, id, now),
                                  "incrementView", id)
                       ELSE /\ last' = [NoOp EXCEPT !.op = "incrementView",
                                                    !.id = id,
                                                    !.outcome = "absent"]
                            /\ UNCHANGED <<videos, blobs, analytics>>
                    /\ watch' =
                          IF last'.outcome = "QuotaExceededError"
                          THEN [watch EXCEPT !.mounted = FALSE,
                                             !.video = videoData,
                                             !.loads = @ + 1, !.calls = @ + 1]
                          ELSE [watch EXCEPT !.video = videoData,
                                             !.viewCountedRef = TRUE,
                                             !.loading = FALSE,
                                             !.loads = @ + 1, !.calls = @ + 1]
               ELSE /\ watch' = [watch EXCEPT !.video = videoData,
                                              !.loading = FALSE,
                                              !.loads = @ + 1]
                    /\ last' = [NoOp EXCEPT !.op = "loadVideo", !.id = id,
                                            !.outcome = "counted"]
                    /\ UNCHANGED <<videos, blobs, analytics, budget>>
          ELSE /\ watch' = [watch EXCEPT !.loading = FALSE, !.loads = @ + 1]
               /\ last' = [NoOp EXCEPT !.op = "loadVideo", !.id = id,
                                       !.outcome = "notFound"]
               /\ UNCHANGED <<videos, blobs, analytics, budget>>
    /\ UNCHANGED <<now, pending, issued, returned, streak, tabs, uiVars>>

NextWatch ==
    \/ StartUpload
    \/ FinishUpload
    \/ DeleteVideo
    \/ MountWatchPage
    \/ UnmountWatchPage
    \/ SetVideoId
    \/ LoadVideo

SpecWatch == InitWatch /\ [][NextWatch]_vars

\* a step in which the watch page calls incrementView
PageCallStep == watch'.calls = watch.calls + 1

\* C20: a mounted watch page has called incrementView at most once, however
\* often loadVideo has run; it calls it only when getVideo and getVideoBlob
\* both found the id; and the store counts every call it accepts, also of
\* an id that has views already.
C20_OneViewPerSession ==
    [][/\ watch'.calls <= 1
       /\ PageCallStep =>
             /\ getVideo(Store, watch.videoId) # <<>>
             /\ getVideoBlob(Store, watch.videoId) # <<>>
             /\ last'.op = "incrementView" /\ last'.id = watch.videoId
             /\ last'.outcome = "done" =>
                   analytics'[watch.videoId].views
                       = analytics[watch.videoId].views + 1]_vars

\* loadVideo has run twice in the second session on a video and the page
\* has called incrementView once in this session; the store has counted
\* both sessions
W20_SecondSession ==
    /\ watch.mounted /\ watch.loads = 2
    /\ watch.calls = 1 /\ watch.viewCountedRef
    /\ watch.videoId \in DOMAIN analytics
    /\ analytics[watch.videoId].views = 2

\* ------------------------------------------------ the watch page's player
PlayBudget == [uploads |-> 0, pending |-> 0, views |-> 1,
               points |-> PlayEnds, time |-> PlayMaxTime,
               quota |-> TabsCapacity]

\* the store after one uploadVideo, no page mounted; Date.now() is not 0
InitPlayback ==
    /\ now = 1
    /\ budget = PlayBudget
    /\ LET st == uploadVideo(StoreOf(<<>>, Empty, Empty),
                             TabVideoData(generateId(0, 0)),
                             blobToBase64("f1")).store
       IN /\ videos = st.videos
          /\ blobs = st.blobs
          /\ analytics = st.analytics
    /\ pending = <<>>
    /\ last = NoOp
    /\ issued = Put(Empty, generateId(0, 0), 1)
    /\ returned = Empty
    /\ streak = <<>>
    /\ tabs = NoTabs
    /\ watch = NoPage
    /\ uploader = NoUploader
    /\ recorder = NoRecorder
    /\ home = NoHome
    /\ trimmer = NoTrimmer

\* the <video> element is rendered: the page is mounted, loading is false
\* and video is set (lines 102-133)
PlayerShown == watch.mounted /\ ~watch.loading /\ watch.video # <<>>

\* onPlay: the first play event of the session stores Date.now()
HandlePlay ==
    /\ PlayerShown
    /\ watch' = [watch EXCEPT
                    !.watchStartTimeRef = IF @ = 0 THEN now ELSE @,
                    !.firstPlay = IF @ = <<>> THEN <<now>> ELSE @]
    /\ UNCHANGED pageFrame

\* (currentTime / duration) * 100
WatchPercentage(currentTime, duration) == (currentTime * 100) \div duration

\* onTimeUpdate, at a position the playback or a seek has reached
HandleTimeUpdate ==
    /\ PlayerShown
    /\ \E currentTime \in 0..PlayLength :
          LET watchPercentage == WatchPercentage(currentTime, PlayLength)
          IN watch' = [watch EXCEPT
                          !.maxWatchPercentageRef =
                              IF watchPercentage > @ THEN watchPercentage
                              ELSE @,
                          !.seen = @ \cup {watchPercentage}]
    /\ UNCHANGED pageFrame

\* onEnded: the position has reached the end, by playback or by a seek to
\* the end of a video that was not played
HandleVideoEnd ==
    /\ PlayerShown
    /\ budget.points > 0
    /\ budget' = [budget EXCEPT !.points = @ - 1]
    /\ LET id == watch.videoId
           watchDuration == now - watch.watchStartTimeRef
           seconds == Quotient(watchDuration, 1000)
       IN /\ IF id \in DOMAIN analytics
             THEN Write(recordCompletion(Store, id,
                                         watch.maxWatchPercentageRef,
                                         seconds, now),
                        "recordCompletion", id)
             ELSE /\ last' = [NoOp EXCEPT !.op = "recordCompletion",
                                          !.id = id, !.outcome = "absent"]
                  /\ UNCHANGED <<videos, blobs, analytics>>
          /\ watch' = [watch EXCEPT
                          !.ends = @ + 1,
                          !.sent = Append(@, [watchPercentage |->
                                                 watch.maxWatchPercentageRef,
                                             watchDuration |-> seconds])]
    /\ UNCHANGED <<now, pending, issued, returned, streak, tabs, uiVars>>

NextPlayback ==
    \/ Tick
    \/ MountWatchPage
    \/ UnmountWatchPage
    \/ LoadVideo
    \/ HandlePlay
    \/ HandleTimeUpdate
    \/ HandleVideoEnd

SpecPlayback == InitPlayback /\ [][NextPlayback]_vars

\* the greatest element of a set of numbers, 0 for the empty set
MaxOf(S) == IF S = {} THEN 0 ELSE CHOOSE x \in S : \A y \in S : y <= x

\* a step that is an ended event in the mounted page
EndedStep == watch'.ends = watch.ends + 1

\* C21: at every ended event the page calls recordCompletion once, with
\* the greatest percentage the time updates of the session have computed
\* (never less than in the call before) and with the time since the first
\* play event of the session (none when nothing was played).
C21_CompletionArguments ==
    [][EndedStep =>
          /\ Len(watch'.sent) = Len(watch.sent) + 1
          /\ last'.op = "recordCompletion" /\ last'.id = watch.videoId
          /\ watch'.sent[Len(watch'.sent)].watchPercentage = MaxOf(watch.seen)
          /\ watch.sent # <<>> =>
                watch.sent[Len(watch.sent)].watchPercentage
                    <= watch'.sent[Len(watch'.sent)].watchPercentage
          /\ watch'.sent[Len(watch'.sent)].watchDuration =
                IF watch.firstPlay = <<>> THEN Quotient(0, 1000)
                ELSE Quotient(now - watch.firstPlay[1], 1000)]_vars

\* ---------------------------------------------------------- the uploader
UploaderBudget == [uploads |-> UploaderUploads, pending |-> 1, views |-> 0,
                   points |-> 0, time |-> MaxTime,
                   quota |-> UploaderCapacity]

InitUploader ==
    /\ now = 0
    /\ videos = <<>>
    /\ blobs = Empty
    /\ analytics = Empty
    /\ pending = <<>>
    /\ budget = UploaderBudget
    /\ last = NoOp
    /\ issued = Empty
    /\ returned = Empty
    /\ streak = <<>>
    /\ tabs = NoTabs
    /\ watch = NoPage
    /\ uploader = NoUploader
    /\ recorder = NoRecorder
    /\ home = NoHome
    /\ trimmer = NoTrimmer

uploaderFrame == <<tabs, watch, recorder, home, trimmer>>

\* the user clicks "Upload": the button is rendered while uploaded is false
\* and enabled while uploading is false; handleUpload runs up to its first
\* await
HandleUpload ==
    /\ ~uploader.uploaded /\ ~uploader.uploading /\ uploader.pc = "idle"
    /\ budget.uploads > 0
    /\ uploader' = [uploader EXCEPT !.uploading = TRUE, !.pc = "delay",
                                    !.alert = <<>>, !.calls = 0,
                                    !.thrown = "none", !.runs = @ + 1]
    /\ UNCHANGED <<now, videos, blobs, analytics, pending, budget, last,
                   issued, returned, streak, uploaderFrame>>

\* the 1500 ms timer has fired: handleUpload calls uploadVideo, which runs
\* up to its await of blobToBase64
UploaderCallsStore ==
    /\ uploader.pc = "delay"
    /\ \E rnd \in 0..MaxRand, f \in Files :
          LET id == generateId(now, rnd)
              m == [title |-> "t", filename |-> "r.webm", duration |-> 4,
                    size |-> 9, createdAt |-> now]
          IN /\ pending' = Append(pending, [id |-> id, meta |-> m, file |-> f])
             /\ issued' = Put(issued, id, IF id \in DOMAIN issued
                                           THEN issued[id] + 1 ELSE 1)
    /\ budget' = [budget EXCEPT !.uploads = @ - 1]
    /\ uploader' = [uploader EXCEPT !.pc = "call", !.calls = @ + 1]
    /\ UNCHANGED <<now, videos, blobs, analytics, last, returned, streak,
                   uploaderFrame>>

\* handleUpload without its finally block
AfterUploadNoFinally(u, outcome, videoData) ==
    IF outcome \in {"stored", "storedAfterCleanup"}
    THEN [u EXCEPT !.videoData = <<videoData>>, !.uploaded = TRUE,
                   !.uploading = FALSE, !.pc = "idle"]
    ELSE [u EXCEPT !.alert = <<UploadFailedAlert>>, !.thrown = outcome,
                   !.pc = "idle"]

\* the rest of handleUpload, run when uploadVideo has returned its record
\* (setVideoData, setUploaded, finally) or thrown (catch, finally)
AfterUpload(u, outcome, videoData) ==
    IF outcome \in {"stored", "storedAfterCleanup"}
    THEN [u EXCEPT !.videoData = <<videoData>>, !.uploaded = TRUE,
                   !.uploading = FALSE, !.pc = "idle"]
    ELSE [u EXCEPT !.alert = <<UploadFailedAlert>>, !.thrown = outcome,
                   !.uploading = FALSE, !.pc = "idle"]

\* uploadVideo returns its record or throws the capacity error, and
\* handleUpload runs to its end
UploaderGetsResult ==
    /\ uploader.pc = "call"
    /\ pending # <<>>
    /\ LET p == pending[1]
           videoData == [id |-> p.id, title |-> p.meta.title,
                         filename |-> p.meta.filename,
                         duration |-> p.meta.duration,
                         size |-> p.meta.size,
                         createdAt |-> p.meta.createdAt,
                         shareUrl |-> ShareUrl(p.id)]
           base64 == blobToBase64(p.file)
           r == uploadVideo(Store, videoData, base64)
       IN /\ videos' = r.store.videos
          /\ blobs' = r.store.blobs
          /\ analytics' = r.store.analytics
          /\ last' = [op |-> "uploadVideo", id |-> p.id,
                      outcome |-> r.outcome, note |-> r.first]
          /\ returned' =
                 IF r.outcome = "CapacityExceeded"
                 THEN Drop(returned, r.evicted)
                 ELSE Put(Drop(returned, r.evicted), p.id,
                          [videoData |-> videoData, base64 |-> base64])
          /\ uploader' = AfterUpload(uploader, r.outcome, videoData)
    /\ pending' = <<>>
    /\ UNCHANGED <<now, budget, issued, streak, uploaderFrame>>

\* blobToBase64 rejects: uploadVideo throws before any write
UploaderGetsReadError ==
    /\ uploader.pc = "call"
    /\ pending # <<>>
    /\ last' = [NoOp EXCEPT !.op = "uploadVideo", !.id = pending[1].id,
                            !.outcome = "ReadError"]
    /\ uploader' = AfterUpload(uploader, "ReadError", <<>>)
    /\ pending' = <<>>
    /\ UNCHANGED <<now, videos, blobs, analytics, budget, issued, returned,
                   streak, uploaderFrame>>

\* the workflow is reset and a new recording is made: the home page
\* unmounts the uploader and mounts a new one
NewUploader ==
    /\ uploader.pc = "idle"
    /\ uploader # NoUploader
    /\ uploader' = NoUploader
    /\ UNCHANGED <<now, videos, blobs, analytics, pending, budget, last,
                   issued, returned, streak, uploaderFrame>>

NextUploader ==
    \/ Tick
    \/ HandleUpload
    \/ UploaderCallsStore
    \/ UploaderGetsResult
    \/ UploaderGetsReadError
    \/ NewUploader

SpecUploader == InitUploader /\ [][NextUploader]_vars

\* the message asks the user to delete videos
AsksToDelete(msg) == msg = CapacityMessage

\* a step in which a run of handleUpload ends
UploadRunEnds == uploader.pc = "call" /\ uploader'.pc = "idle"

\* C22: a run of handleUpload in which uploadVideo threw the capacity
\* error has shown a message that asks the user to delete videos, and
\* every run has called uploadVideo exactly once.
C22_CapacityMessageShown ==
    [][UploadRunEnds =>
          /\ uploader'.calls = 1
          /\ uploader'.thrown = "CapacityExceeded" =>
                /\ uploader'.alert # <<>>
                /\ AsksToDelete(uploader'.alert[1])]_vars

Succeeded == {"stored", "storedAfterCleanup"}

\* the "Upload" button is rendered and enabled
CanUpload(u) == ~u.uploaded /\ ~u.uploading /\ u.pc = "idle"

\* C30: every run of handleUpload ends with uploading false; uploaded
\* becomes true and videoData is set only in a run whose uploadVideo call
\* returned, and then to the returned record; a run that failed leaves
\* uploaded false and the button usable.
C30_UploadingAlwaysCleared ==
    [][/\ UploadRunEnds =>
             /\ ~uploader'.uploading
             /\ last'.outcome \in Succeeded =>
                   /\ uploader'.uploaded
                   /\ uploader'.videoData = <<returned'[last'.id].videoData>>
             /\ last'.outcome \notin Succeeded =>
                   /\ ~uploader'.uploaded
                   /\ uploader'.videoData = <<>>
                   /\ CanUpload(uploader')
       /\ (uploader'.uploaded /\ ~uploader.uploaded) =>
             UploadRunEnds /\ last'.outcome \in Succeeded
       /\ (uploader'.videoData # uploader.videoData
              /\ uploader'.videoData # <<>>) =>
             UploadRunEnds /\ last'.outcome \in Succeeded]_vars

\* the same uploader has started a second run after its first one failed
W30_RestartedAfterFailure ==
    /\ uploader.runs = 2
    /\ uploader.pc = "delay"
    /\ uploader.uploading
    /\ last.outcome \in {"CapacityExceeded", "ReadError"}

\* ---------------------------------------------------------- the recorder
RecorderBudget == [uploads |-> 0, pending |-> 0, views |-> 0, points |-> 0,
                   time |-> RecorderMaxTime, quota |-> Capacity]

InitRecorder ==
    /\ now = 0
    /\ videos = <<>>
    /\ blobs = Empty
    /\ analytics = Empty
    /\ pending = <<>>
    /\ budget = RecorderBudget
    /\ last = NoOp
    /\ issued = Empty
    /\ returned = Empty
    /\ streak = <<>>
    /\ tabs = NoTabs
    /\ watch = NoPage
    /\ uploader = NoUploader
    /\ recorder = NoRecorder
    /\ home = NoHome
    /\ trimmer = NoTrimmer

recorderFrame == <<videos, blobs, analytics, pending, budget, last, issued,
                   returned, streak, tabs, watch, uploader, trimmer>>

\* clearInterval(intervalRef.current); intervalRef.current = null
ClearInterval(r) ==
    IF r.intervalRef = <<>> THEN r
    ELSE [r EXCEPT !.intervals = @ \ {r.intervalRef[1]},
                   !.intervalRef = <<>>]

\* intervalRef.current = setInterval(...)
SetInterval(r) ==
    LET id == CHOOSE n \in 1..(Cardinality(r.intervals) + 1) :
                 /\ n \notin r.intervals
                 /\ \A m \in 1..(n - 1) : m \in r.intervals
    IN [r EXCEPT !.intervals = @ \cup {id}, !.intervalRef = <<id>>]

\* the Blob recorder k has collected, and the Blob trimVideo makes of one
RecordedBlob(k) == [recording |-> k, trimmed |-> FALSE]
TrimmedBlob(blob) == [blob EXCEPT !.trimmed = TRUE]

\* Home.handleRecordingComplete
handleRecordingComplete(h, blob, duration) ==
    [h EXCEPT !.recordedVideo = <<blob>>, !.trimmedVideo = <<blob>>,
              !.videoDuration = duration]

\* a click on "Start Recording", rendered while isRecording is false:
\* startRecording runs up to its await of getDisplayMedia
StartRecording ==
    /\ ~recorder.isRecording
    /\ recorder.clicks < MaxStarts
    /\ recorder' = [ClearInterval(recorder) EXCEPT
                       !.error = FALSE, !.clicks = @ + 1,
                       !.starting = Append(@, recorder.mediaRecorder),
                       !.call = "startRecording"]
    /\ UNCHANGED <<now, home, recorderFrame>>

\* the MediaRecorder and the stream startRecording makes: its display
\* track, its microphone track if the microphone was granted, the time it
\* was started, the time it has spent paused, the stop event it has
\* queued, and the state.mediaRecorder startRecording's closure sees
NewRecorder(audio, closure, t) ==
    [state |-> "recording", video |-> "live",
     audio |-> IF audio THEN "live" ELSE "none",
     started |-> t, paused |-> 0, pausedAt |-> <<>>, stoppedAt |-> <<>>,
     stopEvent |-> FALSE, closure |-> closure]

\* the capture streams are granted: startRecording runs from line 70 to
\* its end
StartRecordingGranted ==
    /\ recorder.starting # <<>>
    /\ \E audio \in BOOLEAN :
          LET k == Len(recorder.recorders) + 1
              r == SetInterval(recorder)
          IN recorder' = [r EXCEPT
                 !.starting = Tail(@),
                 !.recorders = Append(@, NewRecorder(audio,
                                              recorder.starting[1], now)),
                 !.effectiveStartTimeRef = <<now>>,
                 !.pauseTimeRef = <<>>,
                 !.isRecording = TRUE, !.isPaused = FALSE,
                 !.mediaRecorder = <<k>>,
                 !.call = "startRecording"]
    /\ UNCHANGED <<now, home, recorderFrame>>

\* getDisplayMedia rejects: the catch block of startRecording
StartRecordingDenied ==
    /\ recorder.starting # <<>>
    /\ recorder' = [recorder EXCEPT !.starting = Tail(@), !.error = TRUE,
                                    !.call = "startRecording"]
    /\ UNCHANGED <<now, home, recorderFrame>>

\* MediaRecorder.pause() and resume(), which throw InvalidStateError on an
\* inactive recorder
Pause(rec, t) ==
    IF rec.state = "recording"
    THEN [rec EXCEPT !.state = "paused", !.pausedAt = <<t>>]
    ELSE rec
Resume(rec, t) ==
    IF rec.state = "paused"
    THEN [rec EXCEPT !.state = "recording", !.pausedAt = <<>>,
                     !.paused = @ + (t - rec.pausedAt[1])]
    ELSE rec

\* MediaRecorder.stop() and the end of the recorder's last live track:
\* the recorder becomes inactive and queues its stop event
Inactivate(rec, t) ==
    IF rec.state = "inactive" THEN rec
    ELSE [rec EXCEPT !.state = "inactive", !.stopEvent = TRUE,
                     !.stoppedAt = <<t>>, !.pausedAt = <<>>,
                     !.paused = IF rec.pausedAt = <<>> THEN @
                                ELSE @ + (t - rec.pausedAt[1])]

\* track.stop() on every track of the stream
StopTracks(rec) ==
    [rec EXCEPT !.video = "stopped",
                !.audio = IF @ = "none" THEN "none" ELSE "stopped"]

OrNow(ref, t) == IF ref = <<>> THEN t ELSE ref[1]

\* pauseRecording, run with the state of the latest render
pauseRecording(r, t) ==
    IF r.mediaRecorder = <<>> \/ ~r.isRecording THEN r
    ELSE LET k == r.mediaRecorder[1]
             rec == r.recorders[k]
         IN IF rec.state = "inactive" THEN r
            ELSE IF r.isPaused
            THEN LET pausedDuration == t - OrNow(r.pauseTimeRef, t)
                     newStartTime == OrNow(r.effectiveStartTimeRef, t)
                                        + pausedDuration
                 IN [SetInterval(ClearInterval(r)) EXCEPT
                        !.recorders[k] = Resume(rec, t),
                        !.effectiveStartTimeRef = <<newStartTime>>,
                        !.pauseTimeRef = <<>>,
                        !.isPaused = FALSE]
            ELSE [ClearInterval(r) EXCEPT
                        !.recorders[k] = Pause(rec, t),
                        !.pauseTimeRef = <<t>>,
                        !.isPaused = TRUE]

\* a click on the pause / resume button, rendered while isRecording is true
PauseRecording ==
    /\ recorder.isRecording
    /\ recorder' = [pauseRecording(recorder, now) EXCEPT
                       !.call = "pauseRecording"]
    /\ UNCHANGED <<now, home, recorderFrame>>

\* stopRecording, run with the state.mediaRecorder (and state.stream) its
\* closure sees
stopRecording(r, mediaRecorder, t) ==
    IF mediaRecorder = <<>> THEN r
    ELSE LET k == mediaRecorder[1]
         IN [ClearInterval(r) EXCEPT
                !.recorders[k] = StopTracks(Inactivate(@, t)),
                !.effectiveStartTimeRef = <<>>,
                !.pauseTimeRef = <<>>,
                !.isRecording = FALSE, !.isPaused = FALSE,
                !.mediaRecorder = <<>>]

\* a click on the stop button, rendered while isRecording is true
StopRecording ==
    /\ recorder.isRecording
    /\ recorder' = [stopRecording(recorder, recorder.mediaRecorder, now)
                       EXCEPT !.call = "stopRecording"]
    /\ UNCHANGED <<now, home, recorderFrame>>

\* the user stops sharing the screen: the display track of recorder k
\* ends, a recorder whose tracks have all ended becomes inactive, and the
\* onended handler calls the stopRecording of the render in which
\* startRecording was called
TrackEnded(k) ==
    /\ recorder.recorders[k].video = "live"
    /\ LET rec == recorder.recorders[k]
           ended == [rec EXCEPT !.video = "ended"]
           r == [recorder EXCEPT
                    !.recorders[k] = IF rec.audio = "live" THEN ended
                                     ELSE Inactivate(ended, now)]
       IN recorder' = [stopRecording(r, rec.closure, now) EXCEPT
                          !.call = "onended"]
    /\ UNCHANGED <<now, home, recorderFrame>>

\* the stop event of recorder k: recorder.onstop
RecorderStops(k) ==
    /\ recorder.recorders[k].stopEvent
    /\ LET duration == now - OrNow(recorder.effectiveStartTimeRef, now)
           seconds == Quotient(duration, 1000)
       IN /\ recorder' = [recorder EXCEPT
                             !.recorders[k].stopEvent = FALSE,
                             !.delivered = Append(@, [recorder |-> k,
                                                     duration |-> seconds]),
                             !.call = "onstop"]
          /\ home' = handleRecordingComplete(home, RecordedBlob(k), seconds)
    /\ UNCHANGED <<now, recorderFrame>>

NextRecorder ==
    \/ Tick
    \/ StartRecording
    \/ StartRecordingGranted
    \/ StartRecordingDenied
    \/ PauseRecording
    \/ StopRecording
    \/ \E k \in 1..Len(recorder.recorders) : TrackEnded(k)
    \/ \E k \in 1..Len(recorder.recorders) : RecorderStops(k)

SpecRecorder == InitRecorder /\ [][NextRecorder]_vars

\* the recording time of a stopped recorder: from start to stop without
\* the time it was paused
Measured(rec) == rec.stoppedAt[1] - rec.started - rec.paused

\* C23: the duration handed to onRecordingComplete is the time from the
\* start of the recording to its stop minus the time it was paused, in
\* seconds.
C23_MeasuredDuration ==
    [][Len(recorder'.delivered) > Len(recorder.delivered) =>
          LET d == recorder'.delivered[Len(recorder'.delivered)]
          IN d.duration =
                Quotient(Measured(recorder.recorders[d.recorder]), 1000)]_vars

\* the display track of the recorder in state.mediaRecorder ends
DisplayEnds(k) ==
    /\ recorder.isRecording
    /\ recorder.mediaRecorder = <<k>>
    /\ recorder.recorders[k].video = "live"
    /\ recorder'.recorders[k].video = "ended"

\* C25: when the display track of the recording in progress ends, the
\* MediaRecorder is stopped, no track of its stream is live, no timer
\* interval is left and isRecording is false.
C25_TrackEndStops ==
    [][\A k \in 1..Len(recorder.recorders) :
          DisplayEnds(k) =>
             /\ recorder'.recorders[k].state = "inactive"
             /\ recorder'.recorders[k].audio # "live"
             /\ recorder'.intervalRef = <<>>
             /\ recorder'.intervals = {}
             /\ ~recorder'.isRecording]_vars

\* a call of pauseRecording or stopRecording made when no recording is in
\* progress
IdleCall ==
    /\ ~recorder.isRecording
    /\ recorder'.call \in {"pauseRecording", "stopRecording", "onended"}
    /\ recorder' # recorder

\* C27: isPaused implies isRecording, a timer interval is active exactly
\* when isRecording and not isPaused, and a call of pauseRecording or
\* stopRecording made when no recording is in progress changes nothing
\* but the ended display track.
C27_RecorderInvariant ==
    /\ [](recorder.isPaused => recorder.isRecording)
    /\ []((recorder.intervals # {})
            <=> (recorder.isRecording /\ ~recorder.isPaused))
    /\ [][IdleCall =>
             \E k \in 1..Len(recorder.recorders) :
                recorder' = [recorder EXCEPT
                                !.call = "onended",
                                !.recorders[k] = recorder'.recorders[k]]]_vars

\* ------------------------------------------------------ the returned record
\* a step in which the i-th call in flight returns its record
ReturnsRecord(i) ==
    /\ i \in 1..Len(pending)
    /\ pending' = Remove(pending, i)
    /\ last'.op = "uploadVideo"
    /\ last'.id = pending[i].id
    /\ last'.outcome \in Succeeded

\* the record carries the caller's metadata
Carries(v, metadata) ==
    /\ v.title = metadata.title
    /\ v.filename = metadata.filename
    /\ v.duration = metadata.duration
    /\ v.size = metadata.size
    /\ v.createdAt = metadata.createdAt

\* C24: the record uploadVideo returns carries the caller's title,
\* filename, duration, size and createdAt and the share URL "/watch/"
\* followed by its id, and two returned records have the same share URL
\* exactly when they have the same id.
C24_ReturnedRecord ==
    [][(\E i \in 1..Len(pending) : ReturnsRecord(i)) =>
          /\ \E i \in 1..Len(pending) :
                /\ ReturnsRecord(i)
                /\ LET v == returned'[last'.id].videoData
                   IN /\ Carries(v, pending[i].meta)
                      /\ v.id = pending[i].id
                      /\ v.shareUrl = <<"/watch/", v.id>>
          /\ \A a, b \in DOMAIN returned' :
                (returned'[a].videoData.shareUrl
                    = returned'[b].videoData.shareUrl)
                <=> (returned'[a].videoData.id = returned'[b].videoData.id)]_vars

\* two records with different ids and different createdAt have been
\* returned, the second by the latest step
W24_TwoRecordsReturned ==
    /\ last.op = "uploadVideo"
    /\ last.outcome \in Succeeded
    /\ \E a, b \in DOMAIN returned :
          /\ a # b
          /\ last.id = b
          /\ returned[a].videoData.createdAt # returned[b].videoData.createdAt

\* ------------------------------------------------------------ frame effects
\* the items of the map f kept under every key but id
Except(f, id) == [k \in (DOMAIN f) \ {id} |-> f[k]]

\* C26: a deleteVideo, incrementView or recordCompletion call aimed at one
\* id leaves the record, the blob and the analytics of every other id as
\* they were; incrementView leaves the completionData and the average of
\* its id as they were, and recordCompletion the views and lastViewed.
C26_OtherIdsUntouched ==
    [][\A id \in Ids :
          /\ (DeleteVideoStep(id) \/ IncrementViewStep(id)
                 \/ RecordCompletionStep(id)) =>
                /\ Others(videos', id) = Others(videos, id)
                /\ Except(blobs', id) = Except(blobs, id)
                /\ Except(analytics', id) = Except(analytics, id)
          /\ (IncrementViewStep(id) /\ id \in DOMAIN analytics) =>
                /\ id \in DOMAIN analytics'
                /\ analytics'[id].completionData
                      = analytics[id].completionData
                /\ analytics'[id].averageWatchPercentage
                      = analytics[id].averageWatchPercentage
          /\ (RecordCompletionStep(id) /\ id \in DOMAIN analytics) =>
                /\ id \in DOMAIN analytics'
                /\ analytics'[id].views = analytics[id].views
                /\ analytics'[id].lastViewed
                      = analytics[id].lastViewed]_vars

\* a completion point has been recorded on one of two stored videos, the
\* other of which has been viewed
W26_PointBesideViewedVideo ==
    /\ last.op = "recordCompletion" /\ last.outcome = "done"
    /\ last.id \in DOMAIN analytics
    /\ Len(analytics[last.id].completionData) = 1
    /\ analytics[last.id].views = 0
    /\ \E o \in (DOMAIN analytics) \ {last.id} :
          /\ Present(o)
          /\ analytics[o].views = 1

\* ---------------------------------------------- the home page and trimmer
InitHome == InitRecorder

\* Home.handleTrimComplete
handleTrimComplete(h, blob, duration) ==
    [h EXCEPT !.trimmedVideo = <<blob>>, !.videoDuration = duration]

\* Home.resetWorkflow
resetWorkflow(h) ==
    [h EXCEPT !.recordedVideo = <<>>, !.trimmedVideo = <<>>,
              !.videoDuration = [num |-> 0, den |-> 1]]

\* the home page renders the trimmer while recordedVideo is set
TrimmerMounted == home.recordedVideo # <<>>

\* the video the trimmer's player shows
PlayerSrc ==
    IF trimmer.preview # <<>> /\ <<trimmer.preview[1].of>> = home.recordedVideo
    THEN <<trimmer.preview[1].blob>>
    ELSE home.recordedVideo

homeFrame == <<now, videos, blobs, analytics, pending, budget, last, issued,
               returned, streak, tabs, watch, recorder>>

\* a click on "Start New Recording", rendered while recordedVideo is set:
\* the trimmer and the uploader are unmounted
ResetWorkflow ==
    /\ home.recordedVideo # <<>>
    /\ home' = resetWorkflow(home)
    /\ trimmer' = [NoTrimmer EXCEPT !.instance = trimmer.instance + 1,
                                    !.jobs = trimmer.jobs]
    /\ uploader' = NoUploader
    /\ UNCHANGED homeFrame

\* loadFFmpeg has loaded the FFmpeg core
TrimmerLoaded ==
    /\ TrimmerMounted
    /\ ~trimmer.loaded
    /\ trimmer' = [trimmer EXCEPT !.loaded = TRUE]
    /\ UNCHANGED <<home, uploader, homeFrame>>

\* handleLoadedMetadata with a finite duration above 0: the player,
\* rendered while loaded is true, has read the metadata of its video
HandleLoadedMetadata ==
    /\ TrimmerMounted
    /\ trimmer.loaded
    /\ trimmer.metadata # PlayerSrc
    /\ \E dur \in 1..MaxDuration :
          /\ trimmer' = [trimmer EXCEPT
                            !.duration = dur,
                            !.trimSettings = [startTime |-> 0,
                                              endTime |-> dur,
                                              duration |-> dur],
                            !.metadata = PlayerSrc]
          /\ home' = [home EXCEPT
                         !.videoDuration = Quotient(dur, UnitsPerSecond)]
    /\ UNCHANGED <<uploader, homeFrame>>

Minimum(a, b) == IF a <= b THEN a ELSE b
Maximum(a, b) == IF a >= b THEN a ELSE b

\* the values a slider with min 0, max D and step 0.1 can take, and the
\* one it shows for the number x it is given
SliderValues(D) == {v \in 0..D : v % Tenth = 0}
Shown(x, D) ==
    CHOOSE v \in SliderValues(D) :
        \A w \in SliderValues(D) :
            \/ (IF v >= x THEN v - x ELSE x - v)
                  < (IF w >= x THEN w - x ELSE x - w)
            \/ /\ (IF v >= x THEN v - x ELSE x - v)
                     = (IF w >= x THEN w - x ELSE x - w)
               /\ v >= w

\* handleStartTimeChange taking the slider's value as it is
handleStartTimeChangeUnclamped(ts, value) ==
    [ts EXCEPT !.startTime = value, !.duration = ts.endTime - value]

\* handleStartTimeChange: the trimSettings it sets
handleStartTimeChange(ts, value) ==
    LET newStart == Minimum(value, ts.endTime - Tenth)
    IN [ts EXCEPT !.startTime = newStart,
                  !.duration = ts.endTime - newStart]

\* handleEndTimeChange: the trimSettings it sets
handleEndTimeChange(ts, value) ==
    LET newEnd == Maximum(value, ts.startTime + Tenth)
    IN [ts EXCEPT !.endTime = newEnd,
                  !.duration = newEnd - ts.startTime]

\* the user moves the start slider to another value
HandleStartTimeChange ==
    /\ TrimmerMounted
    /\ trimmer.loaded
    /\ \E value \in SliderValues(trimmer.duration) :
          /\ value # Shown(trimmer.trimSettings.startTime, trimmer.duration)
          /\ trimmer' = [trimmer EXCEPT !.trimSettings =
                            handleStartTimeChange(@, value)]
    /\ UNCHANGED <<home, uploader, homeFrame>>

\* the user moves the end slider to another value
HandleEndTimeChange ==
    /\ TrimmerMounted
    /\ trimmer.loaded
    /\ \E value \in SliderValues(trimmer.duration) :
          /\ value # Shown(trimmer.trimSettings.endTime, trimmer.duration)
          /\ trimmer' = [trimmer EXCEPT !.trimSettings =
                            handleEndTimeChange(@, value)]
    /\ UNCHANGED <<home, uploader, homeFrame>>

\* a click on "Trim Video", enabled while loaded and not trimming:
\* trimVideo runs up to its first await, with the videoBlob and the
\* trimSettings of its render
TrimVideo ==
    /\ TrimmerMounted
    /\ trimmer.loaded /\ ~trimmer.trimming
    /\ trimmer' = [trimmer EXCEPT
                      !.trimming = TRUE,
                      !.jobs = Append(@,
                          [instance |-> trimmer.instance,
                           videoBlob |-> home.recordedVideo[1],
                           duration |-> trimmer.trimSettings.endTime
                                          - trimmer.trimSettings.startTime])]
    /\ UNCHANGED <<home, uploader, homeFrame>>

\* the setState calls of a run of trimVideo reach the component that
\* started it, if it is still mounted
Mine(job) == TrimmerMounted /\ job.instance = trimmer.instance

\* FFmpeg has written the output: trimVideo runs from onTrimComplete to
\* its end
TrimCompletes ==
    /\ trimmer.jobs # <<>>
    /\ LET job == Head(trimmer.jobs)
           trimmedBlob == TrimmedBlob(job.videoBlob)
       IN /\ home' = handleTrimComplete(home, trimmedBlob,
                                        Quotient(job.duration, UnitsPerSecond))
          /\ trimmer' =
                IF Mine(job)
                THEN [trimmer EXCEPT
                         !.jobs = Tail(@), !.trimming = FALSE,
                         !.preview = <<[blob |-> trimmedBlob,
                                        of |-> home.recordedVideo[1]]>>]
                ELSE [trimmer EXCEPT !.jobs = Tail(@)]
    /\ UNCHANGED <<uploader, homeFrame>>

\* FFmpeg rejects: the catch and finally blocks of trimVideo
TrimFails ==
    /\ trimmer.jobs # <<>>
    /\ trimmer' = IF Mine(Head(trimmer.jobs))
                  THEN [trimmer EXCEPT !.jobs = Tail(@), !.alert = TRUE,
                                       !.trimming = FALSE]
                  ELSE [trimmer EXCEPT !.jobs = Tail(@), !.alert = TRUE]
    /\ UNCHANGED <<home, uploader, homeFrame>>

\* the recorder's actions beside the home page's
RecorderStep ==
    \/ StartRecording
    \/ StartRecordingGranted
    \/ StopRecording
    \/ \E k \in 1..Len(recorder.recorders) : RecorderStops(k)

NextHome ==
    \/ RecorderStep
    \/ ResetWorkflow
    \/ TrimmerLoaded
    \/ HandleLoadedMetadata
    \/ HandleStartTimeChange
    \/ HandleEndTimeChange
    \/ TrimVideo
    \/ TrimCompletes
    \/ TrimFails

SpecHome == InitHome /\ [][NextHome]_vars

\* C28: trimmedVideo is set only while recordedVideo is set.
C28_TrimmedOnlyWithRecorded ==
    home.trimmedVideo # <<>> => home.recordedVideo # <<>>

\* the trim range lies inside the video and is at least 0.1 s long
TrimRangeValid ==
    LET ts == trimmer.trimSettings
    IN /\ 0 <= ts.startTime
       /\ ts.startTime + Tenth <= ts.endTime
       /\ ts.endTime <= trimmer.duration
       /\ ts.duration = ts.endTime - ts.startTime

\* C29 as stated: once a duration D is loaded, 0 <= startTime,
\* startTime + 0.1 <= endTime <= D and trimSettings.duration =
\* endTime - startTime, whatever the sliders have been moved to.
C29_TrimRange ==
    (TrimmerMounted /\ trimmer.duration > 0) => TrimRangeValid

\* C29 amended: once a duration D of at least 0.1 s is loaded,
\* 0 <= startTime, startTime + 0.1 <= endTime <= D and
\* trimSettings.duration = endTime - startTime, whatever the sliders have
\* been moved to.
C29_TrimRangeFromTenth ==
    (TrimmerMounted /\ trimmer.duration >= Tenth) => TrimRangeValid

\* both sliders have been moved away from the ends of a loaded video
W29_BothSlidersMoved ==
    /\ TrimmerMounted
    /\ trimmer.duration >= Tenth
    /\ trimmer.trimSettings.startTime > 0
    /\ trimmer.trimSettings.endTime < trimmer.duration
    /\ trimmer.trimSettings.endTime
          = trimmer.trimSettings.startTime + Tenth

====
